---- MODULE Spec2Model ----
(***************************************************************************)
(* lockintools: the sweep engine of LockIn, the digest SweepData and the   *)
(* sweep set LockInData (src/lockintools/lockin.py).                       *)
(*                                                                         *)
(* Spec follows one LockIn object through a sequence of calls of           *)
(* set_ampl, set_sens, set_harm and sweep.  A sweep is followed command    *)
(* by command: every write to the serial channel is one step.              *)
(*                                                                         *)
(* SpecData follows one LockInData object through its construction and a   *)
(* sequence of calls of add_sweeps and save_tc3omega, each call one step,  *)
(* in a working directory where other directories may appear.              *)
(*                                                                         *)
(* SpecSession follows one session of a caller who holds a LockIn, two     *)
(* numpy arrays (a frequency grid and an amplitude grid) and a Measure3w   *)
(* object: calls of LockIn.sweep and of the three sweep methods of         *)
(* Measure3w, each call one step that takes the time of its sleeps, waits  *)
(* between calls, and a write of the caller to an array it can reach. The  *)
(* device of a session answers every query with two samples.               *)
(*                                                                         *)
(* Units and data:                                                         *)
(*   - amplitudes are in millivolt (5.0 V is 5000);                        *)
(*   - the harmonic argument is in tenths, so that int(harm) truncates;    *)
(*   - sample values are non-zero integers that name the point, the        *)
(*     channel and the position in the reply they come from; NaN is the    *)
(*     missing-value sentinel of the raw buffers;                          *)
(*   - a reply is the sequence of its tokens: for a TRCA reply the ones    *)
(*     left after split(',')[:-1]; a numeric token is the value float()    *)
(*     gives for it, NotANumber is a token float() rejects, and no reply   *)
(*     line at all (a timeout) is the empty sequence;                      *)
(*   - the device chooses the replies: SPTS? is answered with a count of   *)
(*     0..L_MAX+1 samples, with a token that is no number, or not at all;  *)
(*     after a count N channel 1 answers with N values, channel 2 with     *)
(*     any number of 0..L_MAX+1 values, and either may answer with a       *)
(*     garbled line; a trace query formed from something that is no count  *)
(*     gets no reply line (sweep forwards N into the two queries and       *)
(*     never reads it);                                                    *)
(*   - grids hold at least one value; a grid argument of one value is      *)
(*     passed as a sequence (ndim 1) or as a scalar (ndim 0);              *)
(*   - a number computed from samples is kept exact, as the pair of a      *)
(*     numerator and a denominator and the order of the root taken of      *)
(*     their quotient; a zero denominator is the nan of an empty cell;     *)
(*   - sent, recv and warned are the logs of the call in progress: what    *)
(*     it wrote to and read from the channel, and the warnings it emitted; *)
(*     a new call starts with empty logs.                                  *)
(***************************************************************************)
EXTENDS Integers, Sequences, FiniteSets, TLC

\* ----------------------------------------------------------------- bounds
\* slots per point of the raw buffers (the L_MAX argument of sweep)
L_MAX == 3
\* longest amplitude grid
MaxAmpls == 2
\* longest frequency grid
MaxFreqs == 2
\* most points (amplitudes x frequencies) of one sweep
MaxPoints == 4

\* the sweeps of one session that return, and the seconds a session may last
MaxSweeps == 2
MaxClock == 120

\* ------------------------------------------------------ program constants
AMPL_MAX == 5000
SENS_MIN == 0
SENS_MAX == 26
HARM_MIN == 1
HARM_MAX == 19999
\* the sentinel np.nan that fills the raw buffers
NaN == 0
\* what readline() gives after the timeout, as the text forwarded in N
NoReply == -1
\* a token float() raises ValueError for
NotANumber == -2

VARIABLES
    pc,       \* position of the call in progress; "idle" before any call, "done" after one
    call,     \* the method called last: "none", "set_ampl", "set_sens", "set_harm", "sweep",
              \* a method of LockInData or Measure3w, or "wait", "write" of the caller
    harm,     \* sweep argument harm (tenths)
    sens,     \* sweep argument sens
    ampls,    \* sweep argument ampls: its values
    freqs,    \* sweep argument freqs: its values
    ndim,     \* <<ndim of np.asarray(ampls), ndim of np.asarray(freqs)>> of the arguments
    i,        \* index of the amplitude of the outer loop (1-based)
    j,        \* index of the frequency of the inner loop (1-based)
    N,        \* reply to SPTS? of the current point: a count, NotANumber or NoReply
    x,        \* reply to TRCA?1 of the current point: x_str, then its values
    y,        \* reply to TRCA?2 of the current point: y_str, then its values
    X,        \* raw buffer of channel X: X[i][j] is a sequence of L_MAX slots
    Y,        \* raw buffer of channel Y
    sent,     \* commands written to the channel by the call in progress (or the last one)
    recv,     \* replies read from the channel by that call, as tokens
    warned,   \* warnings emitted by that call
    data,     \* <<the SweepData a sweep returned>>, <<>> without one
    lockindata, \* the attributes of the LockInData object, <<>> before it is constructed
    fs,       \* the directories of the working directory
    csv,      \* the csv files written by the call in progress, each with its path and table
    asked,    \* the ampl argument of the call of save_tc3omega in progress, else 0
    rejected, \* save_tc3omega has refused the sweep set before: a role, the axes or the amplitude
    clock,    \* datetime.now(), in seconds since the session began
    heap,     \* the numpy arrays alive: heap[a] is the content of the array at address a
    measure,  \* the attributes of the Measure3w object, <<>> before it is constructed
    built,    \* the SweepData objects constructed in the session, in their order
    presets,  \* the class attributes sample_1w_defaults, sample_3w_defaults, shunt_1w_defaults
    lastcall, \* <<the last call of a sweep method: its role, its keyword arguments, the
              \* _kwargs it built, whether it reached LockIn.sweep>>
    xlsx,     \* the paths of the xlsx files written by save_all
    outcome,  \* "none" while running, "returned", or "ValueError"
    error     \* the message of the ValueError, "" without one

vars == <<pc, call, harm, sens, ampls, freqs, ndim, i, j, N, x, y, X, Y,
          sent, recv, warned, data, lockindata, fs, csv, asked, rejected,
          clock, heap, measure, built, presets, lastcall, xlsx, outcome, error>>
\* the variables of a sweep and the variables of the sweep set
sweepVars == <<harm, sens, ampls, freqs, ndim, i, j, N, x, y, X, Y, sent, recv, warned, data>>
\* the variables of a session with a Measure3w object
sessionVars == <<clock, heap, measure, built, presets, lastcall, xlsx>>
dataVars == <<lockindata, fs, csv, asked, rejected, sessionVars>>

\* ------------------------------------------------------------------ inputs
Min(a, b) == IF a <= b THEN a ELSE b

\* harmonics offered to set_harm, in tenths: 0.9, 1.0, 19999.9, 20000.0
HarmInputs == {HARM_MIN * 10 - 1, HARM_MIN * 10, HARM_MAX * 10 + 9, (HARM_MAX + 1) * 10}
\* sensitivities offered to set_sens
SensInputs == {SENS_MIN - 1, SENS_MIN, SENS_MAX, SENS_MAX + 1}
\* harmonics and sensitivities offered to sweep: below, inside and above the range
SweepHarmInputs == {HARM_MIN * 10 - 1, HARM_MIN * 10, (HARM_MAX + 1) * 10}
SweepSensInputs == {SENS_MIN - 1, SENS_MAX, SENS_MAX + 1}
\* the in-range amplitude offered at grid position k: 5.0 V, 4.0 V, ...
GoodAmpl(k) == AMPL_MAX - 1000 * (k - 1)
\* the out-of-range amplitude: 5.001 V
BadAmpl == AMPL_MAX + 1
\* amplitudes offered to set_ampl
AmplInputs == {GoodAmpl(1), GoodAmpl(2), BadAmpl}
\* amplitude grids: at each position the in-range amplitude or the out-of-range one
AmplGrids ==
    UNION { { g \in [1..n -> AmplInputs] :
                \A k \in 1..n : g[k] \in {GoodAmpl(k), BadAmpl} } : n \in 1..MaxAmpls }
\* the frequency offered at grid position k: 1000, 500, 333, ... (not ascending)
FreqOf(k) == 1000 \div k
FreqGrids == { [k \in 1..n |-> FreqOf(k)] : n \in 1..MaxFreqs }
\* reply lengths the device may produce: nothing, one value, ..., one more than fits
ReplyLens == 0..(L_MAX + 1)

\* number of the point (a, f) of a sweep over nF frequencies, in row-major order
PointNo(a, f, nF) == (a - 1) * nF + f
\* the k-th value the device returns for channel ch of point p
Sample(ch, p, k) == ch * 1000 + p * 10 + k
\* a reply of n values for channel ch of point p
Reply(ch, p, n) == [k \in 1..n |-> Sample(ch, p, k)]

\* a reply with a token that is no number, after one that is
Garbled(ch, p) == <<Sample(ch, p, 1), NotANumber>>
\* the replies the device may give to SPTS?
CountReplies == {<<n>> : n \in ReplyLens} \cup {<<NotANumber>>, <<>>}
\* the text N of a reply to SPTS?
TextOf(reply) == IF reply = <<>> THEN NoReply ELSE reply[1]
\* the replies the device may give to TRCA?1,0,N and to TRCA?2,0,N at point p
XReplies(p, n) ==
    IF n \in ReplyLens THEN {Reply(1, p, n), Garbled(1, p)} ELSE {<<>>}
YReplies(p, n) ==
    IF n \in ReplyLens THEN {Reply(2, p, k) : k \in ReplyLens} \cup {Garbled(2, p)}
    ELSE {<<>>}

\* the ndim a grid argument may have: a single value may be passed as a scalar
Ndims(g) == IF Len(g) = 1 THEN {0, 1} ELSE {1}

\* ---------------------------------------------------------------- LockIn
Cmd(verb, arg) == [verb |-> verb, arg |-> arg]

\* LockIn.cmd, line 108: the command is written to the channel
cmd(log, command) == Append(log, command)

\* LockIn.cmd, lines 110-114: a command holding '?' reads one reply line
IsQuery(verb) == verb \in {"SPTS?", "TRCA?1", "TRCA?2"}
cmd_read(log, command, reply) ==
    IF IsQuery(command.verb)
    THEN Append(log, [verb |-> command.verb, reply |-> reply])
    ELSE log

\* int(harm), harm in tenths: truncation towards zero
IntOf(h) == IF h >= 0 THEN h \div 10 ELSE 0 - ((0 - h) \div 10)

\* lines 238-239: float(_) for every token; a token that is no number raises
Parses(tokens) == \A k \in 1..Len(tokens) : tokens[k] # NotANumber
FloatMessage == "could not convert string to float"

\* the messages of the ValueErrors
AmplMessage == "can not exceed amplitude of 5V"
SensMessage == "sensitivity setting must be between 0 (1 nV) and 26 (1 V)"
HarmMessage == "harmonic must be between 1 and 19999"
BroadcastMessage == "could not broadcast input array"

\* the guard of set_ampl
AmplRejected(ampl) == ampl > AMPL_MAX
\* the guard of set_sens
SensAccepted(s) == SENS_MIN <= s /\ s <= SENS_MAX
\* faulty variant: the upper bound of the harmonic is off by one
HarmAcceptedOffByOne(h) == HARM_MIN <= h /\ h <= HARM_MAX + 1
\* the guard of set_harm, on int(harm)
HarmAccepted(h) == HARM_MIN <= h /\ h <= HARM_MAX

\* LockIn.set_ampl: the channel log after the call, and the error it raised
set_ampl(log, ampl) ==
    IF AmplRejected(ampl)
    THEN [sent |-> log, raised |-> TRUE, error |-> AmplMessage]
    ELSE [sent |-> cmd(log, Cmd("SLVL", ampl)), raised |-> FALSE, error |-> ""]

\* LockIn.set_sens
set_sens(log, s) ==
    IF SensAccepted(s)
    THEN [sent |-> cmd(log, Cmd("SENS", s)), raised |-> FALSE, error |-> ""]
    ELSE [sent |-> log, raised |-> TRUE, error |-> SensMessage]

\* LockIn.set_harm
set_harm(log, h) ==
    IF HarmAccepted(IntOf(h))
    THEN [sent |-> cmd(log, Cmd("HARM", IntOf(h))), raised |-> FALSE, error |-> ""]
    ELSE [sent |-> log, raised |-> TRUE, error |-> HarmMessage]

\* LockIn.set_freq
set_freq(log, freq) == cmd(log, Cmd("FREQ", freq))

\* ------------------------------------------------------------ raw buffers
\* np.full((len(ampls), len(freqs), L_MAX), fill_value=np.nan)
FullNaN(nA, nF) == [a \in 1..nA |-> [f \in 1..nF |-> [s \in 1..L_MAX |-> NaN]]]
NoBuffer == <<>>

\* numpy: a source of k values can be assigned to a target of m slots
CanAssign(m, k) == k = m \/ k = 1
\* numpy: the target after the assignment (a source of one value is broadcast)
Assigned(m, src) == [s \in 1..m |-> IF Len(src) = 1 THEN src[1] ELSE src[s]]
\* row[:n] = src
SliceAssign(row, n, src) ==
    LET m == Min(n, Len(row))
        t == Assigned(m, src)
    IN  [s \in 1..Len(row) |-> IF s <= m THEN t[s] ELSE row[s]]
\* seq[:n]
Take(seq, n) == SubSeq(seq, 1, Min(n, Len(seq)))

\* faulty variant: the try block writes x to Y[i, j][:len(x)]
TrySourceYFromX(xs, ys) == xs
\* line 243: what the try block writes to Y[i, j][:len(x)]
TrySourceY(xs, ys) == ys
\* faulty variant: the handler writes x[:L_MAX] to Y[i, j]
HandlerSourceYFromX(xs, ys) == Take(xs, L_MAX)
\* line 249: what the handler writes to Y[i, j]
HandlerSourceY(xs, ys) == Take(ys, L_MAX)

\* lines 241-249 for one point: the rows of X and Y after them, whether the
\* overflow warning was emitted and whether a ValueError left the handler
StorePoint(rowX, rowY, xs, ys) ==
    LET m     == Min(Len(xs), L_MAX)
        tryX  == CanAssign(m, Len(xs))
        rowX1 == IF tryX THEN SliceAssign(rowX, Len(xs), xs) ELSE rowX
        srcY  == TrySourceY(xs, ys)
        tryY  == tryX /\ CanAssign(m, Len(srcY))
        rowY1 == IF tryY THEN SliceAssign(rowY, Len(xs), srcY) ELSE rowY
        xt    == Take(xs, L_MAX)
        yt    == HandlerSourceY(xs, ys)
        excX  == CanAssign(L_MAX, Len(xt))
        rowX2 == IF excX THEN Assigned(L_MAX, xt) ELSE rowX1
        excY  == excX /\ CanAssign(L_MAX, Len(yt))
        rowY2 == IF excY THEN Assigned(L_MAX, yt) ELSE rowY1
    IN  IF tryX /\ tryY
        THEN [X |-> rowX1, Y |-> rowY1, warn |-> FALSE, raised |-> FALSE]
        ELSE [X |-> rowX2, Y |-> rowY2, warn |-> TRUE, raised |-> ~(excX /\ excY)]

\* faulty variant: the row is written to X[i], for every frequency of the amplitude
StoreAtRow(B, a, f, row) == [B EXCEPT ![a] = [g \in DOMAIN B[a] |-> row]]
\* the index X[i, j] of lines 242-249: the buffer with the row of point (a, f) replaced
StoreAt(B, a, f, row) == [B EXCEPT ![a][f] = row]

\* the warnings of one point: the overflow warning of line 245, and numpy's
\* RuntimeWarning for the mean of an empty array at lines 251-252
Warning(kind, a, f, V, freq) ==
    [kind |-> kind, i |-> a, j |-> f, ampl |-> V, freq |-> freq]
OverflowWarnings(st, a, f, V, freq) ==
    IF st.warn THEN <<Warning("overflow", a, f, V, freq)>> ELSE <<>>
MeanWarnings(st, xs, ys, a, f, V, freq) ==
    IF st.raised THEN <<>>
    ELSE (IF Len(xs) = 0 THEN <<Warning("empty_mean", a, f, V, freq)>> ELSE <<>>)
         \o (IF Len(ys) = 0 THEN <<Warning("empty_mean", a, f, V, freq)>> ELSE <<>>)

\* ------------------------------------------------------------ control flow
\* faulty variant: the accumulation is not reset before the capture starts
NextPcNoReset(p) ==
    CASE p = "set_freq" -> "strt"
      [] p = "rest"     -> "strt"
      [] p = "strt"     -> "paus"
      [] p = "paus"     -> "spts"
      [] p = "spts"     -> "trca1"
      [] p = "trca1"    -> "trca2"
      [] p = "trca2"    -> "store"
      [] p = "store"    -> "next"

\* the statements of one point, in program order (lines 220-249)
NextPc(p) ==
    CASE p = "set_freq" -> "rest"
      [] p = "rest"     -> "strt"
      [] p = "strt"     -> "paus"
      [] p = "paus"     -> "spts"
      [] p = "spts"     -> "trca1"
      [] p = "trca1"    -> "trca2"
      [] p = "trca2"    -> "store"
      [] p = "store"    -> "next"

\* faulty variant: the device is configured again for every amplitude
AfterPointReconfigures(a, f, nA, nF) ==
    IF f < nF THEN [pc |-> "set_freq", i |-> a, j |-> f + 1]
    ELSE IF a < nA THEN [pc |-> "set_harm", i |-> a + 1, j |-> 1]
    ELSE [pc |-> "return", i |-> a, j |-> f]

\* the for statements of lines 207 and 215: where the sweep goes after point (a, f)
AfterPoint(a, f, nA, nF) ==
    IF f < nF THEN [pc |-> "set_freq", i |-> a, j |-> f + 1]
    ELSE IF a < nA THEN [pc |-> "set_ampl", i |-> a + 1, j |-> 1]
    ELSE [pc |-> "return", i |-> a, j |-> f]

\* ------------------------------------------------------------- SweepData
\* lines 197-201: a scalar grid becomes an array of one value
atleast_1d(values, nd) == IF nd = 0 THEN <<values[1]>> ELSE values

\* the exact number (num / den) ^ (1 / root)
Number(num, den, root) == [num |-> num, den |-> den, root |-> root]
\* nan: what np.mean and np.std give for no values
IsNan(v) == v.den = 0
\* two numbers that are not nan have the same value
SameValue(u, v) ==
    /\ ~IsNan(u) /\ ~IsNan(v)
    /\ CASE u.root = v.root -> u.num * v.den = v.num * u.den
         [] u.root = 1 /\ v.root = 2 -> u.num * u.num * v.den = v.num * u.den * u.den
         [] u.root = 2 /\ v.root = 1 -> v.num * v.num * u.den = u.num * v.den * v.den

\* faulty variant: the sentinel is not filtered out
WithNaN(row) == row
\* lines 308-309: the values of a slice that are not the sentinel
NotNaN(row) == SelectSeq(row, LAMBDA v : v # NaN)

RECURSIVE Sum(_)
Sum(values) == IF values = <<>> THEN 0 ELSE values[1] + Sum(Tail(values))
\* faulty variant: the mean of no values is zero
meanOrZero(values) ==
    IF values = <<>> THEN Number(0, 1, 1) ELSE Number(Sum(values), Len(values), 1)
\* np.mean
mean(values) == Number(Sum(values), Len(values), 1)
\* np.var: the mean of the squared deviations from the mean
var(values) ==
    LET n == Len(values)
        S == Sum(values)
    IN  Number(Sum([k \in 1..n |-> (n * values[k] - S) * (n * values[k] - S)]), n * n * n, 1)
\* np.std: the square root of np.var
std(values) == [var(values) EXCEPT !.root = 2]

\* faulty variant: the digest array is not transposed
NotTransposed(M, m, n) == M
\* V_x.T of lines 319-322
Transpose(M, m, n) == [f \in 1..n |-> [a \in 1..m |-> M[a][f]]]
\* pd.DataFrame(values, index=..., columns=...)
DataFrame(values, index, columns) == [values |-> values, index |-> index, columns |-> columns]

\* lines 300-315: the digest arrays, of m rows and n columns: the means and
\* the dispersions of the slices of a buffer
Means(B, m, n) == [a \in 1..m |-> [f \in 1..n |-> mean(NotNaN(B[a][f]))]]
Dispersions(B, m, n) == [a \in 1..m |-> [f \in 1..n |-> std(NotNaN(B[a][f]))]]

\* SweepData.__init__, lines 283-322 (the ID of lines 284-286 apart)
SweepData(X_, Y_, freqs_, Vs_, sens_, harm_) ==
    LET n == Len(freqs_)
        m == Len(Vs_)
    IN  [freqs |-> freqs_,
         Vs    |-> Vs_,
         X     |-> X_,
         Y     |-> Y_,
         sens  |-> sens_,
         harm  |-> harm_,
         V_x   |-> DataFrame(Transpose(Means(X_, m, n), m, n), freqs_, Vs_),
         V_y   |-> DataFrame(Transpose(Means(Y_, m, n), m, n), freqs_, Vs_),
         dV_x  |-> DataFrame(Transpose(Dispersions(X_, m, n), m, n), freqs_, Vs_),
         dV_y  |-> DataFrame(Transpose(Dispersions(Y_, m, n), m, n), freqs_, Vs_)]

\* ------------------------------------------------------------ LockInData
\* the values an attribute or a keyword argument may hold: the type, for a
\* SweepData which one, for a str its text (as tokens)
None == [type |-> "NoneType", id |-> 0, text |-> <<>>]
Bool(b) == [type |-> "bool", id |-> IF b THEN 1 ELSE 0, text |-> <<>>]
Str(tokens) == [type |-> "str", id |-> 0, text |-> tokens]
Method == [type |-> "method", id |-> 0, text |-> <<>>]
ADataFrame == [type |-> "DataFrame", id |-> 0, text |-> <<>>]
ASweepData(k) == [type |-> "SweepData", id |-> k, text |-> <<>>]

\* the recorded sweeps at hand: the first three over the same grids, the
\* others with another second frequency, a single frequency, the single
\* frequency twice, a third frequency, and a single amplitude
Recordings == 1..8
FreqsOf(k) ==
    CASE k \in {1, 2, 3, 8} -> <<FreqOf(1), FreqOf(2)>>
      [] k = 4 -> <<FreqOf(1), FreqOf(3)>>
      [] k = 5 -> <<FreqOf(1)>>
      [] k = 6 -> <<FreqOf(1), FreqOf(1)>>
      [] k = 7 -> <<FreqOf(1), FreqOf(2), FreqOf(3)>>
VsOf(k) == IF k = 8 THEN <<GoodAmpl(1)>> ELSE <<GoodAmpl(1), GoodAmpl(2)>>
\* the raw buffer of channel ch of recording k: two samples for every point,
\* apart by a distance that no other recording or channel has
BufferOf(k, ch) ==
    [a \in 1..Len(VsOf(k)) |-> [f \in 1..Len(FreqsOf(k)) |->
        [s \in 1..L_MAX |->
            CASE s = 1 -> 10000 * k + Sample(ch, PointNo(a, f, Len(FreqsOf(k))), 1)
              [] s = 2 -> 10000 * k + Sample(ch, PointNo(a, f, Len(FreqsOf(k))), 1) + 2 * k + ch
              [] OTHER -> NaN]]]
\* the SweepData of recording k
Recorded(k) == SweepData(BufferOf(k, 1), BufferOf(k, 2), FreqsOf(k), VsOf(k), SENS_MAX, HARM_MIN)

\* the three roles of the sweep set, in the order of lines 390 and 418
Roles == <<"Vs_3w", "Vs_1w", "Vsh_1w">>
\* os.getcwd()
Cwd == <<"cwd">>
\* LockInData.__init__, lines 334-345: the attributes of a new object, and
\* the methods of its class
NewLockInData(create_dir) ==
    [working_dir       |-> Str(Cwd),
     create_dir        |-> create_dir,
     directory_created |-> Bool(FALSE),
     DIR               |-> None,
     Vs_3w             |-> None,
     Vs_1w             |-> None,
     Vsh_1w            |-> None,
     add_sweeps        |-> Method,
     init_save         |-> Method,
     save_all          |-> Method,
     save_tc3omega     |-> Method]

\* hasattr(self, key), isinstance(sweep_data, SweepData), self.__setattr__
hasattr(self, key) == key \in DOMAIN self
isinstance(value, type) == value.type = type
setattr(self, key, value) == [self EXCEPT ![key] = value]
\* the messages of lines 355-357 and 359-360
NotInstanceMessage(value) ==
    "keyword argument '" \o value.type \o "' is an not instance of lck_tools.SweepData class"
NotARoleMessage(key) ==
    "keyword argument '" \o key \o "' is not one of 'Vs_3w', 'Vs_1w', or 'Vsh_1w'."

\* LockInData.add_sweeps, lines 349-360: the keyword arguments in their order
RECURSIVE add_sweeps(_, _)
add_sweeps(self, kwargs) ==
    IF kwargs = <<>> THEN [self |-> self, raised |-> FALSE, error |-> ""]
    ELSE LET key == kwargs[1].key
             sweep_data == kwargs[1].value
         IN  IF hasattr(self, key)
             THEN IF isinstance(sweep_data, "SweepData")
                  THEN add_sweeps(setattr(self, key, sweep_data), Tail(kwargs))
                  ELSE [self |-> self, raised |-> TRUE, error |-> NotInstanceMessage(sweep_data)]
             ELSE [self |-> self, raised |-> TRUE, error |-> NotARoleMessage(key)]

\* keyword arguments offered: a role with its own recording of the first
\* three, with one of the others or with something that is no SweepData; the
\* name of another attribute, of a method or of nothing, with recording 1 or
\* with something that is no SweepData
Kwarg(key, value) == [key |-> key, value |-> value]
OtherKeys == {"DIR", "save_all", "Vs_2w"}
RoleKwargs ==
    {Kwarg(Roles[r], v) :
        r \in 1..3, v \in {ASweepData(k) : k \in Recordings \ {1, 2, 3}} \cup {ADataFrame}}
    \cup {Kwarg(Roles[r], ASweepData(r)) : r \in 1..3}
OtherKwargs == {Kwarg(key, v) : key \in OtherKeys, v \in {ASweepData(1), ADataFrame}}
\* one keyword argument, or two: the first for the first role or for
\* another name, the second for the second role or for another name
KwargsInputs ==
    {<<a>> : a \in RoleKwargs \cup OtherKwargs}
    \cup ({Kwarg("Vs_3w", ASweepData(1)), Kwarg("Vs_3w", ADataFrame),
           Kwarg("Vs_2w", ASweepData(1)), Kwarg("DIR", ASweepData(1))}
          \X {Kwarg("Vs_1w", ASweepData(2)), Kwarg("Vs_1w", ADataFrame),
              Kwarg("Vs_2w", ADataFrame), Kwarg("save_all", ASweepData(1))})
\* the create_dir argument of the constructor
CreateDirInputs == {None, Str(<<"run">>), Str(<<"run", "(1)">>)}
\* directories someone else may create in the working directory: 'run',
\* 'run(1)' and 'run(1)(1)', as earlier objects made with 'run' or 'run(1)' leave them
OtherDirs == {<<"run">>, <<"run", "(1)">>, <<"run", "(1)", "(1)">>}
\* amplitudes asked of save_tc3omega: the two of the grids and one of no grid
SaveAmplInputs == {GoodAmpl(1), GoodAmpl(2), GoodAmpl(3)}

\* bool(value), as the if statement of line 363 takes it
truthy(value) ==
    CASE value.type = "bool" -> value.id = 1
      [] value.type = "NoneType" -> FALSE
      [] value.type = "str" -> value.text # <<>>
      [] OTHER -> TRUE
\* str(datetime.date(datetime.now())), the suffixes '(1)', '(2)', ..., and
\* str.replace(token, '')
Today == "today"
Suffix(d) == "(" \o ToString(d) \o ")"
Without(name, token) == SelectSeq(name, LAMBDA t : t # token)
\* lines 370-385: the name under which os.mkdir succeeds
RECURSIVE FreeName(_, _, _)
FreeName(create_dir, d, dirs) ==
    IF create_dir \notin dirs THEN create_dir
    ELSE IF d = 0 THEN FreeName(Append(create_dir, Suffix(1)), 1, dirs)
    ELSE FreeName(Append(Without(create_dir, Suffix(d)), Suffix(d + 1)), d + 1, dirs)
PathMessage == "expected str, bytes or os.PathLike object"
ConcatMessage == "unsupported operand type(s) for +"
\* LockInData.init_save, lines 362-387
init_save(self, dirs) ==
    IF truthy(self.directory_created)
    THEN [self |-> self, fs |-> dirs, raised |-> "", error |-> ""]
    ELSE LET create_dir ==
                 IF self.create_dir = None THEN Str(<<"recorded_", Today>>) ELSE self.create_dir
         IN  IF create_dir.type # "str"
             THEN [self |-> [self EXCEPT !.create_dir = create_dir], fs |-> dirs,
                   raised |-> "TypeError", error |-> PathMessage]
             ELSE LET name == FreeName(create_dir.text, 0, dirs)
                  IN  [self |-> [self EXCEPT
                                   !.create_dir = Str(name),
                                   !.directory_created = Bool(TRUE),
                                   !.DIR = Str(self.working_dir.text \o <<"/">> \o name \o <<"/">>)],
                       fs |-> dirs \cup {name},
                       raised |-> "",
                       error |-> ""]

\* a == b for two arrays, then np.all: equal lengths compare pointwise, an
\* array of one value is broadcast, and for other lengths the comparison
\* gives False or raises ValueError, with the numpy installed
AllEqual(a, b) ==
    IF Len(a) = Len(b)
    THEN {IF \A k \in 1..Len(a) : a[k] = b[k] THEN "True" ELSE "False"}
    ELSE IF Len(a) = 1
    THEN {IF \A k \in 1..Len(b) : a[1] = b[k] THEN "True" ELSE "False"}
    ELSE IF Len(b) = 1
    THEN {IF \A k \in 1..Len(a) : a[k] = b[1] THEN "True" ELSE "False"}
    ELSE {"False", "ValueError"}
\* lines 424-425: the condition of the frequency check, with its short-circuit and
FreqsMatch(f_1w, f_3w, f_sh) ==
    {e \in AllEqual(f_1w, f_3w) : e # "True"}
    \cup (IF "True" \in AllEqual(f_1w, f_3w) THEN AllEqual(f_1w, f_sh) ELSE {})
\* ampl in Vs
Contains(Vs, V) == \E k \in 1..Len(Vs) : Vs[k] = V
\* faulty variant: the amplitude is looked for in the grid of Vs_1w only
FoundInFirst(Vs_1w, Vs_3w, Vsh_1w, V) == Contains(Vs_1w, V)
\* lines 428-429: ampl in self.Vs_1w.Vs and ampl in self.Vs_3w.Vs and ampl in self.Vsh_1w.Vs
FoundInAll(Vs_1w, Vs_3w, Vsh_1w, V) ==
    Contains(Vs_1w, V) /\ Contains(Vs_3w, V) /\ Contains(Vsh_1w, V)
\* faulty variant: the first column of the table, whatever the amplitude
FirstColumn(T, V) == [r \in 1..Len(T.index) |-> T.values[r][1]]
\* T[ampl].values: the column of a table labelled V
Column(T, V) ==
    LET c == CHOOSE c \in 1..Len(T.columns) : T.columns[c] = V
    IN  [r \in 1..Len(T.index) |-> T.values[r][c]]
\* the messages of lines 420-421, 426 and 430, and of numpy and pandas
MissingMessage(name) == "no recorded data for attribute '" \o name \o "'"
MismatchMessage == "frequencies don't match across scans"
NotFoundMessage == "specified voltage not found in every scan"
BroadcastCompareMessage == "operands could not be broadcast together"
KeyMessage == "KeyError of the column label"
RaggedMessages == {"setting an array element with a sequence", "Shape of passed values"}

\* lines 448-456 and 462-470: the six columns as a table, with the
\* frequencies of Vs_1w inserted in front
Output(columns, names, freqs_) ==
    LET n == Len(columns[1])
        rows == Transpose(columns, Len(columns), n)
    IN  [columns |-> <<"freq">> \o names,
         rows    |-> [r \in 1..n |-> <<freqs_[r]>> \o rows[r]]]
\* lines 458-459 and 472-473: the file a table is written to
File(self, V, kind, table) ==
    [dir |-> self.DIR.text, name |-> "tc3omega_data_{}_V" \o kind, ampl |-> V, table |-> table]
to_csv(files, file) ==
    {f \in files : ~(f.dir = file.dir /\ f.name = file.name /\ f.ampl = file.ampl)} \cup {file}

\* faulty variant: the last role without data is named
LastMissing(self) ==
    IF \E r \in 1..3 : self[Roles[r]] = None
    THEN CHOOSE r \in 1..3 : self[Roles[r]] = None /\ \A q \in (r + 1)..3 : self[Roles[q]] # None
    ELSE 0
\* lines 418-421: the first role without data, 0 if there is none
FirstMissing(self) ==
    IF \E r \in 1..3 : self[Roles[r]] = None
    THEN CHOOSE r \in 1..3 : self[Roles[r]] = None /\ \A q \in 1..(r - 1) : self[Roles[q]] # None
    ELSE 0

\* the messages of the three preconditions of lines 418-430
PreconditionMessages ==
    {MissingMessage(Roles[r]) : r \in 1..3} \cup {MismatchMessage, NotFoundMessage}
\* faulty variant: a call that fails leaves the roles without data
SavedOrCleared(self, dirs, files, raised, message) ==
    [self  |-> IF raised = "" THEN self
               ELSE [self EXCEPT !.Vs_3w = None, !.Vs_1w = None, !.Vsh_1w = None],
     fs |-> dirs, csv |-> files, raised |-> raised, error |-> message]
\* the outcome of save_tc3omega
Saved(self, dirs, files, raised, message) ==
    [self |-> self, fs |-> dirs, csv |-> files, raised |-> raised, error |-> message]
\* lines 432-476: the two tables are built and written
WriteTables(self, dirs, files, ampl) ==
    LET Vs_3w  == Recorded(self.Vs_3w.id)
        Vs_1w  == Recorded(self.Vs_1w.id)
        Vsh_1w == Recorded(self.Vsh_1w.id)
        V  == <<Column(Vs_3w.V_x, ampl), Column(Vs_3w.V_y, ampl),
                Column(Vs_1w.V_x, ampl), Column(Vs_1w.V_y, ampl),
                Column(Vsh_1w.V_x, ampl), Column(Vsh_1w.V_y, ampl)>>
        dV == <<Column(Vs_3w.dV_x, ampl), Column(Vs_3w.dV_y, ampl),
                Column(Vs_1w.dV_x, ampl), Column(Vs_3w.dV_y, ampl),
                Column(Vsh_1w.dV_x, ampl), Column(Vsh_1w.dV_y, ampl)>>
        V_columns  == <<"Vs_3w", "Vs_3w_o", "Vs_1w", "Vs_1w_o", "Vsh_1w", "Vsh_1w_o">>
        dV_columns == <<"dVs_3w", "dVs_3w_o", "dVs_1w", "dVs_1w_o", "dVsh_1w", "dVsh_1w_o">>
    IN  IF \E T \in {Vs_3w, Vs_1w, Vsh_1w} : ~Contains(T.V_x.columns, ampl)
        THEN {Saved(self, dirs, files, "KeyError", KeyMessage)}
        ELSE IF \E c \in 2..6 : Len(V[c]) # Len(V[1])
        THEN {Saved(self, dirs, files, "ValueError", m) : m \in RaggedMessages}
        ELSE IF self.DIR.type # "str"
        THEN {Saved(self, dirs, files, "TypeError", ConcatMessage)}
        ELSE {Saved(self, dirs,
                    to_csv(to_csv(files, File(self, ampl, ".csv", Output(V, V_columns, Vs_1w.freqs))),
                           File(self, ampl, ".error.csv", Output(dV, dV_columns, Vs_1w.freqs))),
                    "", "")}
\* LockInData.save_tc3omega, lines 416-476: the outcomes it may have
save_tc3omega(self0, dirs0, files, ampl) ==
    LET made == init_save(self0, dirs0)
        self == made.self
        dirs == made.fs
    IN  IF made.raised # "" THEN {Saved(self, dirs, files, made.raised, made.error)}
        ELSE IF FirstMissing(self) # 0
        THEN {Saved(self, dirs, files, "ValueError", MissingMessage(Roles[FirstMissing(self)]))}
        ELSE UNION {
            CASE e = "ValueError" -> {Saved(self, dirs, files, "ValueError", BroadcastCompareMessage)}
              [] e = "False" -> {Saved(self, dirs, files, "IndexError", MismatchMessage)}
              [] e = "True" ->
                   IF ~FoundInAll(Recorded(self.Vs_1w.id).Vs, Recorded(self.Vs_3w.id).Vs,
                                  Recorded(self.Vsh_1w.id).Vs, ampl)
                   THEN {Saved(self, dirs, files, "ValueError", NotFoundMessage)}
                   ELSE WriteTables(self, dirs, files, ampl)
            : e \in FreqsMatch(Recorded(self.Vs_1w.id).freqs, Recorded(self.Vs_3w.id).freqs,
                               Recorded(self.Vsh_1w.id).freqs) }


\* ------------------------------------------------------------- Measure3w
\* measure.py, lines 13-26: the presets of the three sweep methods, by the
\* role each method fills
sample_1w_defaults == [sens |-> 26, stb_time |-> 5, meas_time |-> 1, ampl_time |-> 5]
sample_3w_defaults == [sens |-> 22, stb_time |-> 10, meas_time |-> 1, ampl_time |-> 5]
shunt_1w_defaults  == [sens |-> 22, stb_time |-> 5, meas_time |-> 1, ampl_time |-> 5]
ClassPresets ==
    [Vs_1w |-> sample_1w_defaults, Vs_3w |-> sample_3w_defaults, Vsh_1w |-> shunt_1w_defaults]
\* lockin.py, lines 169-173: the defaults of the parameters of LockIn.sweep
\* (L_MAX, the size of the buffers, is a definition of its own)
SweepDefaults == [stb_time |-> 9, meas_time |-> 1, ampl_time |-> 5]
\* the parameters LockIn.sweep takes by keyword, besides label, freqs, ampls and harm
SweepKeywords == {"sens", "stb_time", "meas_time", "ampl_time", "L_MAX"}

\* a dict without keys, and a dict updated key by key (d[key] = value)
EmptyDict == [key \in {} |-> 0]
Updated(d, kwargs) ==
    [key \in DOMAIN d \cup DOMAIN kwargs |-> IF key \in DOMAIN kwargs THEN kwargs[key] ELSE d[key]]
\* faulty variant: the preset of the class is updated itself, without a copy
OverrideInPlace(all, role, kwargs) ==
    [presets |-> [all EXCEPT ![role] = Updated(all[role], kwargs)],
     kwargs  |-> Updated(all[role], kwargs)]
\* measure.py, lines 84-86, 98-100, 112-114: _kwargs is a copy of the preset
\* of the role, updated with the keyword arguments; the class presets after
Override(all, role, kwargs) ==
    [presets |-> all, kwargs |-> Updated(all[role], kwargs)]

\* keyword arguments offered to the sweep methods: none, another
\* sensitivity and a shorter stabilization, and a parameter the method
\* passes itself
KwargsOffered == {EmptyDict, [sens |-> 20, stb_time |-> 1], [harm |-> 30]}

\* the two arrays of the caller: a frequency grid at address 1, an amplitude
\* grid at address 2
CallerArrays == <<[k \in 1..MaxFreqs |-> FreqOf(k)], [k \in 1..MaxAmpls |-> GoodAmpl(k)]>>
\* the grids offered, frequencies and amplitudes: the two numpy arrays the
\* caller holds, or a list and a number
GridsOffered ==
    {<<[kind |-> "ndarray", at |-> 1, values |-> <<>>],
       [kind |-> "ndarray", at |-> 2, values |-> <<>>]>>,
     <<[kind |-> "list", at |-> 0, values |-> [k \in 1..MaxFreqs |-> FreqOf(k)]],
       [kind |-> "scalar", at |-> 0, values |-> <<GoodAmpl(1)>>]>>}
\* lockin.py, lines 194-201: np.asarray gives the array itself for an array
\* and a new array for a list or a number (made 1-d by [None])
asarray(h, arg) ==
    IF arg.kind = "ndarray" THEN [heap |-> h, at |-> arg.at]
    ELSE [heap |-> Append(h, arg.values), at |-> Len(h) + 1]

\* two digits of a number below 100
TwoDigits(n) == IF n < 10 THEN "0" \o ToString(n) ELSE ToString(n)
\* strftime("%d-%m-%Y_%H-%M") of a time of the day the session began: the
\* day, the hour and the minute
strftime(now) ==
    "dd-mm-yyyy_" \o TwoDigits(now \div 3600) \o "-" \o TwoDigits((now \div 60) % 60)
\* lockin.py, lines 284-286: '_'.join([label, 'HARM' + str(harm), 'SENS' + str(sens), dt]),
\* the harmonic, an int, given in tenths
ID(label, harm_, sens_, now) ==
    label \o "_" \o "HARM" \o ToString(harm_ \div 10) \o "_" \o "SENS" \o ToString(sens_)
          \o "_" \o strftime(now)

\* lockin.py, lines 207-229: the seconds a sweep sleeps up to the end of
\* point (a, f), in a sweep over nF frequencies
Slept(p, a, f, nF) == a * p.ampl_time + ((a - 1) * nF + f) * (p.stb_time + p.meas_time)

\* the SweepData object made at time now of arrays at addresses of the heap:
\* its fields freqs, Vs, X and Y are the arrays given (lines 288-293), its
\* four tables are made of new arrays (lines 300-322), labelled with the
\* values the grids hold then
NewSweepData(h, xAt, yAt, fAt, vAt, label, sens_, harm_, now) ==
    LET d == SweepData(h[xAt], h[yAt], h[fAt], h[vAt], sens_, harm_)
    IN  [ID |-> ID(label, harm_, sens_, now),
         freqs |-> fAt, Vs |-> vAt, X |-> xAt, Y |-> yAt,
         V_x |-> d.V_x, V_y |-> d.V_y, dV_x |-> d.dV_x, dV_y |-> d.dV_y]

\* the outcome of a call: the heap and the clock after it, the exception
\* raised ("" for none) with its message, and <<the SweepData returned>>
Swept(h, now, raised, message, result) ==
    [heap |-> h, clock |-> now, raised |-> raised, error |-> message, data |-> result]
\* LockIn.sweep, lines 169-256, as one step, on a device that answers every
\* point with two samples on both channels, p the parameters bound by
\* keyword: what it raises and when, or the SweepData it returns and when;
\* the arrays of a sweep that raises are dropped
sweep(h, now, label, freqs_, ampls_, harm_, p) ==
    LET F  == asarray(h, freqs_)
        A  == asarray(F.heap, ampls_)
        nF == Len(A.heap[F.at])
        nA == Len(A.heap[A.at])
        bad == {a \in 1..nA : AmplRejected(A.heap[A.at][a])}
        Filled2(ch, n, k) ==
            [a \in 1..n |-> [f \in 1..k |->
                [s \in 1..L_MAX |-> IF s <= 2 THEN Sample(ch, PointNo(a, f, k), s) ELSE NaN]]]
        xAt == Len(A.heap) + 1
        yAt == Len(A.heap) + 2
        full == A.heap \o <<Filled2(1, nA, nF), Filled2(2, nA, nF)>>
        end == now + Slept(p, nA, nF, nF)
    IN  IF set_harm(<<>>, harm_).raised THEN Swept(h, now, "ValueError", HarmMessage, <<>>)
        ELSE IF set_sens(<<>>, p.sens).raised THEN Swept(h, now, "ValueError", SensMessage, <<>>)
        ELSE IF bad # {}
        THEN Swept(h, now + Slept(p, (CHOOSE a \in bad : \A b \in bad : a <= b) - 1, nF, nF),
                   "ValueError", AmplMessage, <<>>)
        ELSE Swept(full, end, "", "",
                   <<NewSweepData(full, xAt, yAt, F.at, A.at, label, p.sens, harm_, end)>>)

\* LockInData.save_all, lines 389-414: two files for every role with data
save_all(self0, dirs0, files, digests) ==
    LET m == init_save(self0, dirs0)
        self == m.self
        held == {r \in 1..3 : self[Roles[r]] # None}
        Path(dir, name) == [dir |-> dir, name |-> name]
    IN  IF m.raised # "" THEN [self |-> self, fs |-> m.fs, xlsx |-> files, raised |-> m.raised,
                                error |-> m.error]
        ELSE [self |-> self, fs |-> m.fs,
              xlsx |-> files
                  \cup {Path(self.DIR.text, Roles[r] \o "_" \o digests[self[Roles[r]].id].ID \o ".xlsx")
                           : r \in held}
                  \cup {Path(self.DIR.text, Roles[r] \o "_o_" \o digests[self[Roles[r]].id].ID \o ".xlsx")
                           : r \in held},
              raised |-> "", error |-> ""]

\* the classes a lock may be of: LockIn, and a subclass of it that defines
\* set_coupling_mode; the methods of LockIn are those of lockin.py, lines 38-267
LockClasses == {"LockIn", "LockInWithCoupling"}
HasMethod(class, name) ==
    LET LockInMethods ==
            {"comm", "close", "open", "cmd", "set_freq", "set_ampl", "set_sens", "set_harm",
             "get_reading", "get_x", "get_y", "sweep", "get_config", "_print"}
    IN  name \in LockInMethods \/ (class = "LockInWithCoupling" /\ name = "set_coupling_mode")
AttributeMessage(name) == "'LockIn' object has no attribute '" \o name \o "'"
KeywordMessage == "sweep() got an unexpected keyword argument, or multiple values for one"
\* measure.py, lines 28-46: the label given, or 'untitled' and the time
LabelsOffered == {Str(<<"a">>), None}
label_setter(label, now) ==
    LET strftime_b == "mon_dd_yyyy_" \o TwoDigits(now \div 3600) \o "-"
                          \o TwoDigits((now \div 60) % 60)
    IN  IF label = None THEN "untitled" \o "_" \o strftime_b ELSE label.text[1]
\* Measure3w.__init__, lines 28-34
NewMeasure3w(freqs_, ampls_, lock, label, now) ==
    [freqs |-> freqs_, ampls |-> ampls_, lock |-> lock, label |-> label_setter(label, now)]

\* ------------------------------------------------------------------- Init
Init ==
    /\ pc = "idle"
    /\ call = "none"
    /\ harm = 0
    /\ sens = 0
    /\ ampls = <<>>
    /\ freqs = <<>>
    /\ ndim = <<1, 1>>
    /\ i = 0
    /\ j = 0
    /\ N = 0
    /\ x = <<>>
    /\ y = <<>>
    /\ X = NoBuffer
    /\ Y = NoBuffer
    /\ sent = <<>>
    /\ recv = <<>>
    /\ warned = <<>>
    /\ data = <<>>
    /\ lockindata = <<>>
    /\ fs = {}
    /\ csv = {}
    /\ asked = 0
    /\ rejected = FALSE
    /\ clock = 0
    /\ heap = CallerArrays
    /\ measure = <<>>
    /\ built = <<>>
    /\ presets = ClassPresets
    /\ lastcall = <<>>
    /\ xlsx = {}
    /\ outcome = "none"
    /\ error = ""

\* no locals, no buffers, no result
NoFrame ==
    /\ i' = 0 /\ j' = 0 /\ N' = 0 /\ x' = <<>> /\ y' = <<>>
    /\ X' = NoBuffer /\ Y' = NoBuffer
    /\ data' = <<>>

\* the state a finished call of one of the setters leaves
Finished(name, r) ==
    /\ pc' = "done"
    /\ call' = name
    /\ sent' = r.sent
    /\ outcome' = IF r.raised THEN "ValueError" ELSE "returned"
    /\ error' = r.error
    /\ harm' = 0 /\ sens' = 0 /\ ampls' = <<>> /\ freqs' = <<>> /\ ndim' = <<1, 1>>
    /\ NoFrame
    /\ recv' = <<>>
    /\ warned' = <<>>
    /\ UNCHANGED dataVars

\* a call of LockIn.set_ampl
CallSetAmpl ==
    /\ pc = "idle"
    /\ \E a \in AmplInputs : Finished("set_ampl", set_ampl(<<>>, a))

\* a call of LockIn.set_sens
CallSetSens ==
    /\ pc = "idle"
    /\ \E s \in SensInputs : Finished("set_sens", set_sens(<<>>, s))

\* a call of LockIn.set_harm
CallSetHarm ==
    /\ pc = "idle"
    /\ \E h \in HarmInputs : Finished("set_harm", set_harm(<<>>, h))

\* a call of LockIn.sweep: the arguments are bound
CallSweep ==
    /\ pc = "idle"
    /\ \E h \in SweepHarmInputs, s \in SweepSensInputs, A \in AmplGrids, F \in FreqGrids :
         /\ Len(A) * Len(F) <= MaxPoints
         /\ harm' = h
         /\ sens' = s
         /\ ampls' = A
         /\ freqs' = F
         /\ \E da \in Ndims(A), df \in Ndims(F) : ndim' = <<da, df>>
    /\ pc' = "set_harm"
    /\ call' = "sweep"
    /\ NoFrame
    /\ sent' = <<>>
    /\ recv' = <<>>
    /\ warned' = <<>>
    /\ outcome' = "none"
    /\ error' = ""
    /\ UNCHANGED dataVars

\* the caller has the outcome of the call; the next call starts afresh
BackToCaller ==
    /\ pc = "done"
    /\ pc' = "idle"
    /\ call' = "none"
    /\ harm' = 0 /\ sens' = 0 /\ ampls' = <<>> /\ freqs' = <<>> /\ ndim' = <<1, 1>>
    /\ NoFrame
    /\ sent' = <<>>
    /\ recv' = <<>>
    /\ warned' = <<>>
    /\ outcome' = "none"
    /\ error' = ""
    /\ csv' = {}
    /\ asked' = 0
    /\ UNCHANGED <<lockindata, fs, rejected, sessionVars>>

\* the sweep ends with a ValueError
Raise(message) ==
    /\ pc' = "done"
    /\ outcome' = "ValueError"
    /\ error' = message

\* the sweep goes on
GoOn(p) ==
    /\ pc' = p
    /\ UNCHANGED <<outcome, error>>

\* line 191: self.set_harm(harm)
SweepSetHarm ==
    /\ pc = "set_harm"
    /\ LET r == set_harm(sent, harm)
       IN  /\ sent' = r.sent
           /\ IF r.raised THEN Raise(r.error) ELSE GoOn("set_sens")
    /\ UNCHANGED <<dataVars, ndim, data, call, harm, sens, ampls, freqs, i, j, N, x, y, X, Y, recv, warned>>

\* lines 192-205: self.set_sens(sens), then the grids and the buffers
SweepSetSens ==
    /\ pc = "set_sens"
    /\ LET r == set_sens(sent, sens)
       IN  /\ sent' = r.sent
           /\ IF r.raised
              THEN /\ Raise(r.error)
                   /\ UNCHANGED <<ampls, freqs, i, j, X, Y>>
              ELSE /\ GoOn("set_ampl")
                   /\ ampls' = atleast_1d(ampls, ndim[1])
                   /\ freqs' = atleast_1d(freqs, ndim[2])
                   /\ i' = 1
                   /\ j' = 1
                   /\ X' = FullNaN(Len(ampls'), Len(freqs'))
                   /\ Y' = FullNaN(Len(ampls'), Len(freqs'))
    /\ UNCHANGED <<dataVars, ndim, data, call, harm, sens, N, x, y, recv, warned>>

\* lines 207-213: self.set_ampl(V) for the amplitude of the outer loop
SweepSetAmpl ==
    /\ pc = "set_ampl"
    /\ LET r == set_ampl(sent, ampls[i])
       IN  /\ sent' = r.sent
           /\ IF r.raised THEN Raise(r.error) ELSE GoOn("set_freq")
    /\ UNCHANGED <<dataVars, ndim, data, call, harm, sens, ampls, freqs, i, j, N, x, y, X, Y, recv, warned>>

\* line 220: self.set_freq(freq)
SweepSetFreq ==
    /\ pc = "set_freq"
    /\ sent' = set_freq(sent, freqs[j])
    /\ GoOn(NextPc(pc))
    /\ UNCHANGED <<dataVars, ndim, data, call, harm, sens, ampls, freqs, i, j, N, x, y, X, Y, recv, warned>>

\* lines 221, 226, 228: self.cmd('REST'), self.cmd('STRT'), self.cmd('PAUS')
SweepCapture ==
    /\ pc \in {"rest", "strt", "paus"}
    /\ LET verb == CASE pc = "rest" -> "REST" [] pc = "strt" -> "STRT" [] pc = "paus" -> "PAUS"
       IN  /\ sent' = cmd(sent, Cmd(verb, 0))
           /\ recv' = cmd_read(recv, Cmd(verb, 0), <<>>)
    /\ GoOn(NextPc(pc))
    /\ UNCHANGED <<dataVars, ndim, data, call, harm, sens, ampls, freqs, i, j, N, x, y, X, Y, warned>>

\* line 231: N = self.cmd('SPTS?'); the reply is kept as text
SweepSpts ==
    /\ pc = "spts"
    /\ sent' = cmd(sent, Cmd("SPTS?", 0))
    /\ \E reply \in CountReplies :
         /\ N' = TextOf(reply)
         /\ recv' = cmd_read(recv, Cmd("SPTS?", 0), reply)
    /\ GoOn(NextPc(pc))
    /\ UNCHANGED <<dataVars, ndim, data, call, harm, sens, ampls, freqs, i, j, x, y, X, Y, warned>>

\* line 233: x_str = self.cmd('TRCA?1,0,' + N)
SweepTrca1 ==
    /\ pc = "trca1"
    /\ sent' = cmd(sent, Cmd("TRCA?1", N))
    /\ \E reply \in XReplies(PointNo(i, j, Len(freqs)), N) :
         /\ x' = reply
         /\ recv' = cmd_read(recv, Cmd("TRCA?1", N), reply)
    /\ GoOn(NextPc(pc))
    /\ UNCHANGED <<dataVars, ndim, data, call, harm, sens, ampls, freqs, i, j, N, y, X, Y, warned>>

\* lines 234, 238-239: y_str = self.cmd('TRCA?2,0,' + N), then x_str and
\* y_str are parsed, in this order
SweepTrca2 ==
    /\ pc = "trca2"
    /\ sent' = cmd(sent, Cmd("TRCA?2", N))
    /\ \E reply \in YReplies(PointNo(i, j, Len(freqs)), N) :
         /\ y' = reply
         /\ recv' = cmd_read(recv, Cmd("TRCA?2", N), reply)
         /\ IF Parses(x) /\ Parses(reply) THEN GoOn(NextPc(pc)) ELSE Raise(FloatMessage)
    /\ UNCHANGED <<dataVars, ndim, data, call, harm, sens, ampls, freqs, i, j, N, x, X, Y, warned>>

\* lines 241-253: the replies go to the buffers of the point
SweepStore ==
    /\ pc = "store"
    /\ LET st == StorePoint(X[i][j], Y[i][j], x, y)
       IN  /\ X' = StoreAt(X, i, j, st.X)
           /\ Y' = StoreAt(Y, i, j, st.Y)
           /\ warned' = warned \o OverflowWarnings(st, i, j, ampls[i], freqs[j])
                               \o MeanWarnings(st, x, y, i, j, ampls[i], freqs[j])
           /\ IF st.raised THEN Raise(BroadcastMessage) ELSE GoOn(NextPc(pc))
    /\ UNCHANGED <<dataVars, ndim, data, call, harm, sens, ampls, freqs, i, j, N, x, y, sent, recv>>

\* lines 207, 215: the loops take the next point, or end; N, x and y are
\* bound anew before they are read again
SweepNext ==
    /\ pc = "next"
    /\ LET nx == AfterPoint(i, j, Len(ampls), Len(freqs))
       IN  /\ GoOn(nx.pc)
           /\ i' = nx.i
           /\ j' = nx.j
    /\ N' = 0
    /\ x' = <<>>
    /\ y' = <<>>
    /\ UNCHANGED <<dataVars, ndim, data, call, harm, sens, ampls, freqs, X, Y, sent, recv, warned>>

\* line 256: return SweepData(X, Y, freqs, ampls, label, sens, harm)
SweepReturn ==
    /\ pc = "return"
    /\ pc' = "done"
    /\ data' = <<SweepData(X, Y, freqs, ampls, sens, harm)>>
    /\ outcome' = "returned"
    /\ UNCHANGED <<dataVars, ndim, call, harm, sens, ampls, freqs, i, j, N, x, y, X, Y, sent, recv,
                   warned, error>>

\* --------------------------------------------------- LockInData: calls
\* the state a finished call on the sweep set leaves
Called(name, raised, message) ==
    /\ pc' = "done"
    /\ call' = name
    /\ outcome' = IF raised = "" THEN "returned" ELSE raised
    /\ error' = message
    /\ UNCHANGED <<sweepVars, sessionVars>>

\* LockInData(create_dir=..., **kwargs): without an object when add_sweeps raises
Construct ==
    /\ pc = "idle"
    /\ lockindata = <<>>
    /\ \E create_dir \in CreateDirInputs, kwargs \in KwargsInputs \cup {<<>>} :
         LET r == add_sweeps(NewLockInData(create_dir), kwargs)
         IN  /\ lockindata' = IF r.raised THEN <<>> ELSE r.self
             /\ Called("LockInData", IF r.raised THEN "ValueError" ELSE "", r.error)
    /\ UNCHANGED <<fs, csv, asked, rejected>>

\* a call of LockInData.add_sweeps
CallAddSweeps ==
    /\ pc = "idle"
    /\ lockindata # <<>>
    /\ \E kwargs \in KwargsInputs :
         LET r == add_sweeps(lockindata, kwargs)
         IN  /\ lockindata' = r.self
             /\ Called("add_sweeps", IF r.raised THEN "ValueError" ELSE "", r.error)
    /\ UNCHANGED <<fs, csv, asked, rejected>>

\* a call of LockInData.save_tc3omega
CallSaveTc3omega ==
    /\ pc = "idle"
    /\ lockindata # <<>>
    /\ \E a \in SaveAmplInputs :
         \E r \in save_tc3omega(lockindata, fs, csv, a) :
             /\ asked' = a
             /\ lockindata' = r.self
             /\ fs' = r.fs
             /\ csv' = r.csv
             /\ rejected' = (rejected \/ r.error \in PreconditionMessages)
             /\ Called("save_tc3omega", r.raised, r.error)

\* someone else creates a directory in the working directory, a name with
\* suffixes after the names without them
OtherMkdir ==
    /\ pc = "idle"
    /\ lockindata = <<>>
    /\ \E name \in OtherDirs \ fs :
         /\ \A k \in 1..(Len(name) - 1) : SubSeq(name, 1, k) \in fs
         /\ fs' = fs \cup {name}
    /\ UNCHANGED <<pc, call, outcome, error, lockindata, csv, asked, rejected>>
    /\ UNCHANGED <<sweepVars, sessionVars>>

\* ------------------------------------------------------ the session: calls
\* the state a finished call of the session leaves
SessionCalled(name, raised, message) ==
    /\ call' = name
    /\ outcome' = IF raised = "" THEN "returned" ELSE raised
    /\ error' = message
    /\ UNCHANGED <<pc, sweepVars, csv, asked, rejected>>

\* Measure3w(freqs=..., ampls=..., lock=..., label=...), with its LockInData
ConstructMeasure3w ==
    /\ measure = <<>>
    /\ \E grids \in GridsOffered, lock \in LockClasses, label \in LabelsOffered :
         measure' = NewMeasure3w(grids[1], grids[2], lock, label, clock)
    /\ lockindata' = NewLockInData(None)
    /\ SessionCalled("Measure3w", "", "")
    /\ UNCHANGED <<clock, heap, built, presets, lastcall, xlsx, fs>>

\* a sweep method of Measure3w, lines 83-132: the method for a role, with
\* its harmonic, after the seconds of the countdown
SweepMethod(name, role, harm_, countdown) ==
    /\ measure # <<>>
    /\ Len(built) < MaxSweeps
    /\ \E kwargs \in KwargsOffered :
         LET o   == Override(presets, role, kwargs)
             now == clock + countdown
             r   == IF ~HasMethod(measure.lock, "set_coupling_mode")
                    THEN [reached |-> FALSE,
                          out |-> Swept(heap, now, "AttributeError",
                                        AttributeMessage("set_coupling_mode"), <<>>)]
                    ELSE IF ~(DOMAIN o.kwargs \subseteq SweepKeywords)
                    THEN [reached |-> TRUE,
                          out |-> Swept(heap, now, "TypeError", KeywordMessage, <<>>)]
                    ELSE [reached |-> TRUE,
                          out |-> sweep(heap, now, measure.label, measure.freqs, measure.ampls,
                                        harm_, o.kwargs)]
             stored == add_sweeps(lockindata, <<Kwarg(role, ASweepData(Len(built) + 1))>>)
             saved  == save_all(stored.self, fs, xlsx, built \o r.out.data)
         IN  /\ presets' = o.presets
             /\ lastcall' = <<[role |-> role, kwargs |-> kwargs, merged |-> o.kwargs,
                               reached |-> r.reached]>>
             /\ r.out.clock <= MaxClock
             /\ clock' = r.out.clock
             /\ heap' = r.out.heap
             /\ built' = built \o r.out.data
             /\ IF r.out.raised # ""
                THEN /\ UNCHANGED <<lockindata, fs, xlsx>>
                     /\ SessionCalled(name, r.out.raised, r.out.error)
                ELSE /\ lockindata' = saved.self
                     /\ fs' = saved.fs
                     /\ xlsx' = saved.xlsx
                     /\ SessionCalled(name, saved.raised, saved.error)
    /\ UNCHANGED measure

\* Measure3w.sweep_sample1w, lines 83-95
SweepSample1w ==
    /\ pc = "idle"
    /\ SweepMethod("sweep_sample1w", "Vs_1w", 10, 0)
\* Measure3w.sweep_sample3w, lines 97-109
SweepSample3w ==
    /\ pc = "idle"
    /\ SweepMethod("sweep_sample3w", "Vs_3w", 30, 0)
\* Measure3w.sweep_shunt1w, lines 111-132: with the countdown of 30 s, or without
SweepShunt1w ==
    /\ pc = "idle"
    /\ \E countdown \in {0, 30} : SweepMethod("sweep_shunt1w", "Vsh_1w", 10, countdown)

\* a call of LockIn.sweep by the caller, with the defaults of its waiting times
CallLockSweep ==
    /\ Len(built) < MaxSweeps
    /\ \E grids \in GridsOffered :
         LET r == sweep(heap, clock, "a", grids[1], grids[2], HARM_MIN * 10,
                        Updated(SweepDefaults, [sens |-> SENS_MAX]))
         IN  /\ r.clock <= MaxClock
             /\ clock' = r.clock
             /\ heap' = r.heap
             /\ built' = built \o r.data
             /\ SessionCalled("LockIn.sweep", r.raised, r.error)
    /\ lastcall' = <<>>
    /\ UNCHANGED <<measure, lockindata, fs, xlsx, presets>>

\* the caller waits half a minute, before the first sweep
Wait ==
    /\ built = <<>>
    /\ clock + 30 <= MaxClock
    /\ clock' = clock + 30
    /\ lastcall' = <<>>
    /\ SessionCalled("wait", "", "")
    /\ UNCHANGED <<heap, measure, built, presets, xlsx, lockindata, fs>>

\* the caller writes to an array it can reach: one of its own, or one that a
\* SweepData holds (array[0] = 1 for a grid, array[0, 0, 0] = 1 for a raw
\* buffer); once in a session, after its sweeps
Write ==
    /\ Len(built) = MaxSweeps
    /\ LET Buffers == {built[d].X : d \in 1..Len(built)} \cup {built[d].Y : d \in 1..Len(built)}
           Written(h, a) ==
               IF a \in Buffers THEN [h EXCEPT ![a][1][1][1] = 1] ELSE [h EXCEPT ![a][1] = 1]
       IN  /\ \A a \in 1..Len(heap) : Written(heap, a) # heap
           /\ \E a \in 1..Len(heap) : heap' = Written(heap, a)
    /\ lastcall' = <<>>
    /\ SessionCalled("write", "", "")
    /\ UNCHANGED <<clock, measure, built, presets, xlsx, lockindata, fs>>

\* ------------------------------------------------------------ the claims
InSweep == call = "sweep"
Returned == call = "sweep" /\ outcome = "returned"
Count(log, verb) == Cardinality({k \in 1..Len(log) : log[k].verb = verb})
IsPrefix(s, t) == Len(s) <= Len(t) /\ SubSeq(t, 1, Len(s)) = s
\* the harmonic and the sensitivity of the sweep are in range
ConfigInRange == IntOf(harm) \in 1..19999 /\ sens \in 0..26
\* every amplitude of the grid is at most 5.0 V
AmplsInRange == \A k \in 1..Len(ampls) : ampls[k] <= 5000
\* a command without the sample count the trace queries carry
WithoutCount(c) == IF c.verb \in {"TRCA?1", "TRCA?2"} THEN Cmd(c.verb, 0) ELSE c
\* the commands written after the configuration (HARM, SENS), without sample counts
LoopCommands ==
    [k \in 1..(IF Len(sent) > 2 THEN Len(sent) - 2 ELSE 0) |-> WithoutCount(sent[k + 2])]

\* the commands of one point, of the points from frequency k on, of the rows from amplitude k on
ExpectedPoint(freq) ==
    <<Cmd("FREQ", freq), Cmd("REST", 0), Cmd("STRT", 0), Cmd("PAUS", 0),
      Cmd("SPTS?", 0), Cmd("TRCA?1", 0), Cmd("TRCA?2", 0)>>
RECURSIVE ExpectedPoints(_, _)
ExpectedPoints(F, k) ==
    IF k > Len(F) THEN <<>> ELSE ExpectedPoint(F[k]) \o ExpectedPoints(F, k + 1)
RECURSIVE ExpectedRows(_, _, _)
ExpectedRows(A, F, k) ==
    IF k > Len(A) THEN <<>>
    ELSE <<Cmd("SLVL", A[k])>> \o ExpectedPoints(F, 1) \o ExpectedRows(A, F, k + 1)

\* C1: a sweep writes its commands in row-major order: for each amplitude in
\* the given order one SLVL, then for each frequency in the given order FREQ,
\* REST, STRT, PAUS, SPTS?, TRCA?1, TRCA?2; what has been written is at every
\* moment a prefix of that sequence, and a completed sweep has written all of
\* it: |A| SLVL commands and |A|*|F| of each command of a point.
C1_RowMajorOrder ==
    InSweep =>
        /\ IsPrefix(LoopCommands, ExpectedRows(ampls, freqs, 1))
        /\ outcome = "returned" =>
             /\ LoopCommands = ExpectedRows(ampls, freqs, 1)
             /\ Count(sent, "SLVL") = Len(ampls)
             /\ \A v \in {"FREQ", "REST", "STRT", "PAUS", "SPTS?", "TRCA?1", "TRCA?2"} :
                  Count(sent, v) = Len(ampls) * Len(freqs)

\* a sweep over two amplitudes and two frequencies has returned
C1_Witness == Returned /\ Len(ampls) = 2 /\ Len(freqs) = 2

\* C2: a sweep whose harmonic is outside 1..19999 or whose sensitivity is
\* outside 0..26 fails, and has written no command to the channel (stated for
\* the sweeps whose amplitudes are all in range).
C2_FailFast ==
    (InSweep /\ ~ConfigInRange /\ AmplsInRange) =>
        /\ sent = <<>>
        /\ pc = "done" => outcome = "ValueError"

\* C3: a sweep whose amplitude grid holds an amplitude above 5.0 V, at any
\* position, fails, and has written no command to the channel (stated for the
\* sweeps whose harmonic and sensitivity are in range).
C3_AmplitudeRejectedFirst ==
    (InSweep /\ ConfigInRange /\ ~AmplsInRange) =>
        /\ sent = <<>>
        /\ pc = "done" => outcome = "ValueError"

C5_ConfiguredOnce ==
    InSweep =>
        /\ \A k \in 1..Len(sent) :
             /\ sent[k].verb = "HARM" <=> k = 1
             /\ sent[k].verb = "SENS" <=> k = 2
        /\ outcome = "returned" => Count(sent, "HARM") = 1 /\ Count(sent, "SENS") = 1

\* the last point of a sweep over two amplitudes and two frequencies is processed
C5_Witness == InSweep /\ pc = "next" /\ i = 2 /\ j = 2

\* the try block and the handler of lines 241-249 have run for point (i, j),
\* whose replies are x and y: the sweep goes on, or the handler raised
PointProcessed ==
    InSweep /\ (pc = "next" \/ (pc = "done" /\ error = BroadcastMessage))
\* the overflow warnings emitted for point (a, f)
OverflowsOf(a, f) ==
    {k \in 1..Len(warned) :
        warned[k].kind = "overflow" /\ warned[k].i = a /\ warned[k].j = f}
\* the replies read for point (a, f) of a sweep, once all three are read
XReplyOf(a, f) == recv[3 * (PointNo(a, f, Len(freqs)) - 1) + 2].reply
YReplyOf(a, f) == recv[3 * (PointNo(a, f, Len(freqs)) - 1) + 3].reply
\* the slots of a row that are not the sentinel
Filled(row) == {s \in 1..Len(row) : row[s] # NaN}

\* every trace reply read so far holds at least one value
NoEmptyReply ==
    \A k \in 1..Len(recv) : recv[k].verb \in {"TRCA?1", "TRCA?2"} => Len(recv[k].reply) > 0
\* every reply read so far holds numbers only, and every SPTS? got its count
AllNumeric ==
    \A k \in 1..Len(recv) :
        /\ Parses(recv[k].reply)
        /\ recv[k].verb = "SPTS?" => Len(recv[k].reply) = 1

\* C6: a sweep with an in-range harmonic, sensitivity and amplitudes, on a
\* channel that answers every query with numeric values, of any lengths for
\* either channel, ends by returning, with the replies of every point read
\* (stated for the sweeps in which every trace reply holds at least one value).
C6_CompletesAllPoints ==
    (InSweep /\ pc = "done" /\ ConfigInRange /\ AmplsInRange /\ NoEmptyReply /\ AllNumeric) =>
        /\ outcome = "returned"
        /\ Len(recv) = 3 * Len(ampls) * Len(freqs)

\* C7: when both channels of a point return more than L_MAX values, then once
\* the point is processed X[i,j] holds the first L_MAX values of x and Y[i,j]
\* the first L_MAX values of y, in order, no slot holds the sentinel, one
\* overflow warning names the frequency and the amplitude of the point, and
\* the sweep goes on.
C7_OverflowTruncates ==
    (PointProcessed /\ Len(x) > L_MAX /\ Len(y) > L_MAX) =>
        /\ pc = "next"
        /\ outcome = "none"
        /\ Len(X[i][j]) = L_MAX
        /\ Len(Y[i][j]) = L_MAX
        /\ \A s \in 1..L_MAX :
             /\ X[i][j][s] = x[s]
             /\ Y[i][j][s] = y[s]
             /\ X[i][j][s] # NaN
             /\ Y[i][j][s] # NaN
        /\ Cardinality(OverflowsOf(i, j)) = 1
        /\ \A k \in OverflowsOf(i, j) :
             warned[k].freq = freqs[j] /\ warned[k].ampl = ampls[i]

\* a point whose two replies are longer than L_MAX is processed
C7_Witness == InSweep /\ pc = "next" /\ Len(x) > L_MAX /\ Len(y) > L_MAX

\* C8: in a returned sweep there is exactly one overflow warning for each
\* point of which a reply is longer than L_MAX, and none for a point whose
\* replies both hold at most L_MAX values.
C8_WarningIffOverflow ==
    Returned =>
        \A a \in 1..Len(ampls), f \in 1..Len(freqs) :
            Cardinality(OverflowsOf(a, f)) =
                IF Len(XReplyOf(a, f)) > L_MAX \/ Len(YReplyOf(a, f)) > L_MAX THEN 1 ELSE 0

\* C9: in a returned sweep, for every point both channels of which returned
\* n <= L_MAX values, the first n slots of X[i,j] and of Y[i,j] hold the
\* returned values in order and the other slots hold the sentinel; and for
\* every point the number of slots filled in X[i,j] is the number filled in
\* Y[i,j].
C9_PaddingConsistent ==
    Returned =>
        \A a \in 1..Len(ampls), f \in 1..Len(freqs) :
            LET xs == XReplyOf(a, f)
                ys == YReplyOf(a, f)
            IN  /\ (Len(xs) = Len(ys) /\ Len(xs) <= L_MAX) =>
                     \A s \in 1..L_MAX :
                        /\ X[a][f][s] = IF s <= Len(xs) THEN xs[s] ELSE NaN
                        /\ Y[a][f][s] = IF s <= Len(ys) THEN ys[s] ELSE NaN
                /\ Cardinality(Filled(X[a][f])) = Cardinality(Filled(Y[a][f]))

\* a returned sweep with a point that returned two values on both channels
C9_Witness ==
    /\ Returned
    /\ \E a \in 1..Len(ampls), f \in 1..Len(freqs) :
         Len(XReplyOf(a, f)) = 2 /\ Len(YReplyOf(a, f)) = 2

\* the positions of the sweep at which point (i, j) is being processed
PointPcs == {"set_freq", "rest", "strt", "paus", "spts", "trca1", "trca2", "store"}

\* C10: a step of the processing of point (i,j), whether the point overflows
\* or not, leaves the slots of every other point of X and Y as they were.
C10_OtherPointsUntouched ==
    [][ (InSweep /\ pc \in PointPcs) =>
            \A a \in 1..Len(ampls), f \in 1..Len(freqs) :
                (a # i \/ f # j) =>
                    X'[a][f] = X[a][f] /\ Y'[a][f] = Y[a][f] ]_vars

\* the second point has overflowed and the slots of the first still hold its values
C10_Witness ==
    /\ InSweep
    /\ pc = "next"
    /\ PointNo(i, j, Len(freqs)) = 2
    /\ OverflowsOf(i, j) # {}
    /\ X[1][1] = <<Sample(1, 1, 1), Sample(1, 1, 2)>> \o [s \in 1..(L_MAX - 2) |-> NaN]

\* the position in sent of the query that read the k-th reply of recv
QueryPos(k) ==
    CHOOSE q \in 1..Len(sent) :
        /\ IsQuery(sent[q].verb)
        /\ Cardinality({r \in 1..q : IsQuery(sent[r].verb)}) = k
\* a reply that shows a transport failure: a token that is no number, or no
\* reply line to SPTS?
TransportFailure(r) ==
    \/ ~Parses(r.reply)
    \/ r.verb = "SPTS?" /\ r.reply = <<>>

\* C11: when during a sweep a query gets no reply line, or a reply to SPTS?,
\* TRCA?1 or TRCA?2 holds a token that is no number, the sweep writes no
\* further command after that query and ends with an error, returning nothing.
C11_TransportSurfaced ==
    InSweep =>
        \A k \in 1..Len(recv) :
            TransportFailure(recv[k]) =>
                /\ Len(sent) = QueryPos(k)
                /\ outcome # "returned"
                /\ pc = "done" => outcome = "ValueError"

\* the points of the sweep
Points == {p \in (1..Len(ampls)) \X (1..Len(freqs)) : TRUE}
\* the entry of a table of the digest for amplitude number a and frequency number f
Cell(T, a, f) == T.values[f][a]
\* no sample came back for point (a, f), on either channel
NoSamples(a, f) == XReplyOf(a, f) = <<>> /\ YReplyOf(a, f) = <<>>
\* at every point read so far the two channels returned the same number of values
SameLengths ==
    \A k \in 1..Len(recv) :
        (recv[k].verb = "TRCA?2") => Len(recv[k].reply) = Len(recv[k - 1].reply)

\* C12: a point for which no sample was captured raises nothing: the sweep
\* goes on after it; a sweep with valid parameters whose points all return
\* as many numeric values on one channel as on the other, none included,
\* returns a SweepData; in it the two means of a point without samples are
\* nan and the two means of a point with samples are the means of its slices.
C12_EmptyPointIsNaN ==
    /\ (PointProcessed /\ x = <<>> /\ y = <<>>) => (pc = "next" /\ outcome = "none")
    /\ (InSweep /\ pc = "done" /\ ConfigInRange /\ AmplsInRange /\ AllNumeric /\ SameLengths)
          => outcome = "returned"
    /\ Returned =>
          /\ Len(data) = 1
          /\ \A p \in Points :
               IF NoSamples(p[1], p[2])
               THEN /\ IsNan(Cell(data[1].V_x, p[1], p[2]))
                    /\ IsNan(Cell(data[1].V_y, p[1], p[2]))
               ELSE (XReplyOf(p[1], p[2]) # <<>> /\ YReplyOf(p[1], p[2]) # <<>>) =>
                    /\ SameValue(Cell(data[1].V_x, p[1], p[2]),
                                 Number(Sum(NotNaN(X[p[1]][p[2]])), Len(NotNaN(X[p[1]][p[2]])), 1))
                    /\ SameValue(Cell(data[1].V_y, p[1], p[2]),
                                 Number(Sum(NotNaN(Y[p[1]][p[2]])), Len(NotNaN(Y[p[1]][p[2]])), 1))

\* a returned sweep of which the first point has no samples and the last one
\* has two on each channel
C12_Witness ==
    /\ Returned
    /\ Len(ampls) = 2
    /\ NoSamples(1, 1)
    /\ Len(XReplyOf(2, Len(freqs))) = 2
    /\ Len(YReplyOf(2, Len(freqs))) = 2
    /\ IsNan(Cell(data[1].V_x, 1, 1))
    /\ ~IsNan(Cell(data[1].V_x, 2, Len(freqs)))

\* the entry of a table at the row labelled freq and the column labelled ampl
Loc(T, freq, ampl) ==
    T.values[CHOOSE r \in 1..Len(T.index) : T.index[r] = freq]
            [CHOOSE c \in 1..Len(T.columns) : T.columns[c] = ampl]
\* a table has one row per frequency and one column per amplitude of the
\* sweep, labelled with them in the order given
ShapedAsGrids(T) ==
    /\ Len(T.values) = Len(freqs)
    /\ \A r \in 1..Len(T.values) : Len(T.values[r]) = Len(ampls)
    /\ T.index = freqs
    /\ T.columns = ampls

\* C13: each of the four tables V_x, V_y, dV_x, dV_y of the SweepData a sweep
\* returns has one row per frequency and one column per amplitude, labelled
\* with the frequencies and the amplitudes in the order given (a scalar grid
\* counting as a grid of one value), and its entry at (freqs[j], ampls[i]) is
\* the one computed from the raw slice [i, j].
C13_TablesFollowGrids ==
    Returned =>
        /\ ShapedAsGrids(data[1].V_x) /\ ShapedAsGrids(data[1].V_y)
        /\ ShapedAsGrids(data[1].dV_x) /\ ShapedAsGrids(data[1].dV_y)
        /\ \A p \in Points :
             /\ Loc(data[1].V_x, freqs[p[2]], ampls[p[1]]) = mean(NotNaN(X[p[1]][p[2]]))
             /\ Loc(data[1].V_y, freqs[p[2]], ampls[p[1]]) = mean(NotNaN(Y[p[1]][p[2]]))
             /\ Loc(data[1].dV_x, freqs[p[2]], ampls[p[1]]) = std(NotNaN(X[p[1]][p[2]]))
             /\ Loc(data[1].dV_y, freqs[p[2]], ampls[p[1]]) = std(NotNaN(Y[p[1]][p[2]]))

\* a sweep over two amplitudes and a scalar frequency has returned, with
\* one sample for the first amplitude and two for the second
C13_Witness ==
    /\ Returned
    /\ ndim = <<1, 0>>
    /\ Len(ampls) = 2
    /\ Len(data[1].V_x.values) = 1
    /\ Len(NotNaN(X[1][1])) = 1
    /\ Len(NotNaN(X[2][1])) = 2

\* the sum of the slots S of a row
RECURSIVE SlotSum(_, _)
SlotSum(row, S) ==
    IF S = {} THEN 0
    ELSE LET s == CHOOSE t \in S : TRUE IN row[s] + SlotSum(row, S \ {s})
\* v is the arithmetic mean of the slots of a row that do not hold the
\* sentinel: nan without such a slot
IsMeanOfFilled(v, row) ==
    /\ IsNan(v) <=> Filled(row) = {}
    /\ Filled(row) # {} =>
         /\ v.root = 1
         /\ v.num * Cardinality(Filled(row)) = SlotSum(row, Filled(row)) * v.den
\* v is the arithmetic mean of the first k values of a reply: nan for k = 0
IsMeanOfFirst(v, reply, k) ==
    IF k = 0 THEN IsNan(v)
    ELSE /\ ~IsNan(v)
         /\ v.root = 1
         /\ v.num * k = SlotSum(reply, 1..k) * v.den

\* C14: in the SweepData a sweep returns, for every point V_x is the
\* arithmetic mean of exactly the values of X[i,j] that are not the sentinel
\* and V_y that of Y[i,j]; for a point that returned n values on each
\* channel this is the mean of the first L_MAX returned values when
\* n > L_MAX and the mean of all n otherwise.
C14_MeanOfStoredSamples ==
    Returned =>
        \A p \in Points :
            LET xr == XReplyOf(p[1], p[2])
                yr == YReplyOf(p[1], p[2])
            IN  /\ IsMeanOfFilled(Cell(data[1].V_x, p[1], p[2]), X[p[1]][p[2]])
                /\ IsMeanOfFilled(Cell(data[1].V_y, p[1], p[2]), Y[p[1]][p[2]])
                /\ Len(xr) = Len(yr) =>
                     /\ IsMeanOfFirst(Cell(data[1].V_x, p[1], p[2]), xr, Min(Len(xr), L_MAX))
                     /\ IsMeanOfFirst(Cell(data[1].V_y, p[1], p[2]), yr, Min(Len(yr), L_MAX))

\* a returned sweep with a point of more than L_MAX values and a point of
\* fewer than L_MAX values, at least one
C14_Witness ==
    /\ Returned
    /\ Len(ampls) * Len(freqs) >= 2
    /\ Len(XReplyOf(1, 1)) > L_MAX
    /\ Len(YReplyOf(1, 1)) > L_MAX
    /\ Len(XReplyOf(Len(ampls), Len(freqs))) = L_MAX - 1
    /\ Len(YReplyOf(Len(ampls), Len(freqs))) = L_MAX - 1

\* v is the value of w, or both are nan
SameOrNan(v, w) == IF IsNan(w) THEN IsNan(v) ELSE SameValue(v, w)

\* C15: in the SweepData a sweep returns, dV_x and dV_y hold for every point
\* the variance of the values of its slice that are not the sentinel: the
\* measure np.var of the SweepData of tools.py, which the docstring and the
\* sheet name 'var' announce (stated for the sweeps whose points return as
\* many values on one channel as on the other).
C15_DispersionIsVariance ==
    (Returned /\ SameLengths) =>
        \A p \in Points :
            /\ SameOrNan(Cell(data[1].dV_x, p[1], p[2]), var(NotNaN(X[p[1]][p[2]])))
            /\ SameOrNan(Cell(data[1].dV_y, p[1], p[2]), var(NotNaN(Y[p[1]][p[2]])))

\* there is a LockInData object
Constructed == lockindata # <<>>
\* the names of the object that are no roles
NotRoles == DOMAIN NewLockInData(None) \ {Roles[r] : r \in 1..3}

\* C16: the constructor's keyword arguments and add_sweeps assign a value to
\* a name only when the name is one of the three roles and the value is a
\* SweepData: a role holds None or a SweepData, and every other attribute or
\* method of the object (DIR, working_dir, create_dir, save_all, ...) is what
\* the object itself made it, never a SweepData handed to add_sweeps; a call
\* that returns has therefore named roles only.
C16_OnlyRolesAssigned ==
    Constructed =>
        /\ \A r \in 1..3 : lockindata[Roles[r]].type \in {"NoneType", "SweepData"}
        /\ \A name \in NotRoles : lockindata[name].type # "SweepData"

\* a call of save_tc3omega has ended
SaveEnded == call = "save_tc3omega" /\ pc = "done"
\* the three roles hold data
AllRoles == \A r \in 1..3 : lockindata[Roles[r]].type = "SweepData"
\* the SweepData a role holds
Held(name) == Recorded(lockindata[name].id)

\* C17: a call of save_tc3omega on a sweep set of which a role holds no data
\* fails with the ValueError 'no recorded data for attribute', which names
\* the first such role in the order Vs_3w, Vs_1w, Vsh_1w, and writes no table.
C17_MissingRoleNamed ==
    (SaveEnded /\ ~AllRoles) =>
        /\ outcome = "ValueError"
        /\ \E r \in 1..3 :
             /\ lockindata[Roles[r]] = None
             /\ \A q \in 1..(r - 1) : lockindata[Roles[q]] # None
             /\ error = "no recorded data for attribute '" \o Roles[r] \o "'"
        /\ csv = {}

\* save_tc3omega was called with the first role holding data and the other
\* two holding none
C17_Witness ==
    /\ SaveEnded
    /\ lockindata.Vs_3w.type = "SweepData"
    /\ lockindata.Vs_1w = None
    /\ lockindata.Vsh_1w = None
    /\ error = "no recorded data for attribute 'Vs_1w'"

\* the frequency axes of the three roles are the same sequence
SameAxes ==
    /\ Held("Vs_1w").freqs = Held("Vs_3w").freqs
    /\ Held("Vs_1w").freqs = Held("Vsh_1w").freqs
\* the axes of the three roles have the same length, but for axes of one value
LengthsAgree ==
    \A r, q \in 1..3 :
        \/ Len(Held(Roles[r]).freqs) = Len(Held(Roles[q]).freqs)
        \/ Len(Held(Roles[r]).freqs) = 1
        \/ Len(Held(Roles[q]).freqs) = 1

\* C18: a call of save_tc3omega on a sweep set whose three roles hold data
\* with frequency axes that are not the same, differing at one index or in
\* length, fails with the IndexError 'frequencies don't match across scans'
\* and writes no table (stated for axes of one length, or of one value).
C18_FrequencyMismatch ==
    (SaveEnded /\ AllRoles /\ LengthsAgree /\ ~SameAxes) =>
        /\ outcome = "IndexError"
        /\ error = MismatchMessage
        /\ csv = {}

\* C19: a call of save_tc3omega(ampl) on a sweep set whose three roles hold
\* data with the same frequency axis fails with the ValueError 'specified
\* voltage not found in every scan' and writes no table when ampl is not in
\* the amplitude grid of one of the three, whatever the other two hold.
C19_AmplitudeNotFound ==
    (SaveEnded /\ AllRoles /\ SameAxes
       /\ \E r \in 1..3 : \A k \in 1..Len(Held(Roles[r]).Vs) : Held(Roles[r]).Vs[k] # asked) =>
        /\ outcome = "ValueError"
        /\ error = NotFoundMessage
        /\ csv = {}

\* save_tc3omega was asked for an amplitude that the grids of Vs_1w and
\* Vsh_1w hold and the grid of Vs_3w does not
C19_Witness ==
    /\ SaveEnded
    /\ AllRoles
    /\ SameAxes
    /\ asked = GoodAmpl(2)
    /\ Contains(Held("Vs_1w").Vs, asked)
    /\ Contains(Held("Vsh_1w").Vs, asked)
    /\ ~Contains(Held("Vs_3w").Vs, asked)
    /\ error = NotFoundMessage

\* the value tables written by the call
ValueTables == {f \in csv : f.name = "tc3omega_data_{}_V.csv"}
\* the place of the amplitude asked for in the grid of a role
AskedIn(name) == CHOOSE a \in 1..Len(Held(name).Vs) : Held(name).Vs[a] = asked

\* C20: a call of save_tc3omega(ampl) that returns has written one value
\* table, for ampl; its columns are freq, Vs_3w, Vs_3w_o, Vs_1w, Vs_1w_o,
\* Vsh_1w, Vsh_1w_o in this order; it has one row per frequency of the axis
\* of the roles, in the order of the axis; and in the row of a frequency each
\* value is the mean of the samples its own role recorded at that frequency
\* and amplitude ampl, on channel X for the plain column and on channel Y
\* for the _o column.
C20_AlignedValueTable ==
    (SaveEnded /\ outcome = "returned") =>
        /\ Cardinality(ValueTables) = 1
        /\ \A f \in ValueTables :
             /\ f.ampl = asked
             /\ f.table.columns =
                  <<"freq", "Vs_3w", "Vs_3w_o", "Vs_1w", "Vs_1w_o", "Vsh_1w", "Vsh_1w_o">>
             /\ Len(f.table.rows) = Len(Held("Vs_1w").freqs)
             /\ \A r \in 1..Len(f.table.rows) :
                  /\ Len(f.table.rows[r]) = 7
                  /\ f.table.rows[r][1] = Held("Vs_1w").freqs[r]
                  /\ f.table.rows[r][1] = Held("Vs_3w").freqs[r]
                  /\ f.table.rows[r][1] = Held("Vsh_1w").freqs[r]
                  /\ \A c \in 1..3 :
                       /\ IsMeanOfFilled(f.table.rows[r][2 * c],
                                         Held(Roles[c]).X[AskedIn(Roles[c])][r])
                       /\ IsMeanOfFilled(f.table.rows[r][2 * c + 1],
                                         Held(Roles[c]).Y[AskedIn(Roles[c])][r])

\* save_tc3omega has returned for the second amplitude of three recordings
\* over two frequencies in descending order
C20_Witness ==
    /\ SaveEnded
    /\ outcome = "returned"
    /\ asked = GoodAmpl(2)
    /\ lockindata.Vs_3w.id = 1 /\ lockindata.Vs_1w.id = 2 /\ lockindata.Vsh_1w.id = 3
    /\ Held("Vs_1w").freqs = <<1000, 500>>
    /\ ValueTables # {}

\* the error tables written by the call
ErrorTables == {f \in csv : f.name = "tc3omega_data_{}_V.error.csv"}

\* C21: a call of save_tc3omega(ampl) that returns has written one error
\* table, for ampl, with the rows of the value table; its columns are freq,
\* dVs_3w, dVs_3w_o, dVs_1w, dVs_1w_o, dVsh_1w, dVsh_1w_o in this order; and
\* in the row of a frequency each dispersion is the one its own role holds
\* for that frequency and amplitude ampl, of channel X (dV_x) for the plain
\* column and of channel Y (dV_y) for the _o column: dVs_1w_o is the dV_y
\* column of Vs_1w.
C21_AlignedErrorTable ==
    (SaveEnded /\ outcome = "returned") =>
        /\ Cardinality(ErrorTables) = 1
        /\ \A f \in ErrorTables :
             /\ f.ampl = asked
             /\ f.table.columns =
                  <<"freq", "dVs_3w", "dVs_3w_o", "dVs_1w", "dVs_1w_o", "dVsh_1w", "dVsh_1w_o">>
             /\ Len(f.table.rows) = Len(Held("Vs_1w").freqs)
             /\ \A r \in 1..Len(f.table.rows) :
                  /\ Len(f.table.rows[r]) = 7
                  /\ f.table.rows[r][1] = Held("Vs_1w").freqs[r]
                  /\ \A c \in 1..3 :
                       /\ SameValue(f.table.rows[r][2 * c],
                                    Held(Roles[c]).dV_x.values[r][AskedIn(Roles[c])])
                       /\ SameValue(f.table.rows[r][2 * c + 1],
                                    Held(Roles[c]).dV_y.values[r][AskedIn(Roles[c])])

\* a step that is a call of save_tc3omega
SaveStep == pc = "idle" /\ call' = "save_tc3omega"
\* the three preconditions of the alignment hold for the amplitude asked for
PreconditionsHold ==
    /\ AllRoles
    /\ SameAxes
    /\ \A r \in 1..3 : Contains(Held(Roles[r]).Vs, asked)

\* C22: a call of save_tc3omega that fails for a missing role, for axes that
\* do not match or for an amplitude that is not found leaves each of the
\* three roles holding what it held before the call; and a call on a sweep
\* set that was refused before succeeds once the three preconditions hold
\* (stated for the sweep sets of which add_sweeps was given roles only, so
\* that no attribute but a role holds a SweepData).
C22_IntactAndRetried ==
    [][SaveStep =>
         /\ error' \in PreconditionMessages =>
               \A r \in 1..3 : lockindata'[Roles[r]] = lockindata[Roles[r]]
         /\ (/\ rejected
             /\ \A name \in NotRoles : lockindata[name].type # "SweepData"
             /\ PreconditionsHold') =>
               /\ outcome' = "returned"
               /\ ValueTables' # {}
               /\ ErrorTables' # {}]_vars

\* save_tc3omega has returned for a sweep set that it refused before
C22_Witness ==
    SaveEnded /\ rejected /\ outcome = "returned" /\ ValueTables # {} /\ PreconditionsHold

\* C23: a call of save_tc3omega, whether it returns or raises, leaves every
\* field of the sweep set as it was (the three roles, create_dir,
\* directory_created and DIR), and a call that raises has written no csv
\* file and created no directory.
C23_ReadOnlyAlignment ==
    [][SaveStep =>
         /\ \A name \in {"Vs_3w", "Vs_1w", "Vsh_1w", "create_dir", "directory_created", "DIR"} :
               lockindata'[name] = lockindata[name]
         /\ outcome' # "returned" => (csv' = {} /\ fs' = fs)]_vars

\* the text t occurs in the message m
Mentions(m, t) == \E k \in 1..(Len(m) - Len(t) + 1) : SubSeq(m, k, k + Len(t) - 1) = t
\* str() of a harmonic given in tenths and of an amplitude given in millivolt
Tenths(h) == ToString(h \div 10) \o "." \o ToString(h % 10)
Volts(a) ==
    ToString(a \div 1000) \o "." \o ToString((a % 1000) \div 100)
        \o ToString((a % 100) \div 10) \o ToString(a % 10)

\* C24: the description of a fatal failure names the offending value: the
\* harmonic, the sensitivity or the amplitude that a sweep rejected; the
\* role without data, a frequency of the axes that do not match, or the
\* amplitude not found, for save_tc3omega; and the unknown name, or the value
\* that is no SweepData, for add_sweeps and the constructor.
C24_FailureNamesValue ==
    /\ (InSweep /\ pc = "done" /\ outcome = "ValueError") =>
          /\ ~HarmAccepted(IntOf(harm)) => Mentions(error, Tenths(harm))
          /\ (HarmAccepted(IntOf(harm)) /\ ~SensAccepted(sens)) => Mentions(error, ToString(sens))
          /\ (ConfigInRange /\ AmplRejected(ampls[i])) => Mentions(error, Volts(ampls[i]))
    /\ (SaveEnded /\ ~AllRoles) =>
          \E r \in 1..3 : lockindata[Roles[r]] = None /\ Mentions(error, Roles[r])
    /\ (SaveEnded /\ AllRoles /\ LengthsAgree /\ ~SameAxes) =>
          \E r \in 1..3 : \E k \in 1..Len(Held(Roles[r]).freqs) :
              Mentions(error, ToString(Held(Roles[r]).freqs[k]))
    /\ (SaveEnded /\ AllRoles /\ SameAxes
          /\ \E r \in 1..3 : ~Contains(Held(Roles[r]).Vs, asked)) =>
          Mentions(error, Volts(asked))
    /\ (call \in {"add_sweeps", "LockInData"} /\ outcome = "ValueError") =>
          \/ \E key \in OtherKeys : Mentions(error, "'" \o key \o "'")
          \/ Mentions(error, "'" \o ADataFrame.type \o "'")

\* the queries among the commands written, in their order
Queries == SelectSeq(sent, LAMBDA c : IsQuery(c.verb))
\* the k-th read got a reply line: a read of the count that gave no text
\* is a read that timed out
GotLine(k) == recv[k].verb = "SPTS?" => recv[k].reply # <<>>

\* C27: whatever commands have been written, every query among them has had
\* one reply line read back before the next command was written, and the
\* other commands none: the reads are as many as the queries written, the
\* k-th read is the read of the k-th query, and a query that was followed by
\* another command had got its reply line.
C27_OneOutstanding ==
    /\ Len(recv) = Len(Queries)
    /\ \A k \in 1..Len(recv) :
         /\ recv[k].verb = Queries[k].verb
         /\ QueryPos(k) < Len(sent) => GotLine(k)

\* C30: a call of add_sweeps that raises, for a name the object does not have
\* or for a value that is no SweepData, at whatever place among the keyword
\* arguments, leaves each of the three roles holding what it held before.
C30_AllOrNothing ==
    [][(pc = "idle" /\ call' = "add_sweeps" /\ outcome' = "ValueError") =>
          \A r \in 1..3 : lockindata'[Roles[r]] = lockindata[Roles[r]]]_vars

\* the three sweep methods of Measure3w, and the harmonic each asks for
SweepMethods == {"sweep_sample1w", "sweep_sample3w", "sweep_shunt1w"}
HarmOf(name) == IF name = "sweep_sample3w" THEN "3" ELSE "1"

\* C25: the ID of a SweepData is its label, 'HARM' and the harmonic, 'SENS'
\* and the sensitivity, and the time of its construction, joined by '_'
\* (stated for the one a sweep method has just returned with); and no two
\* SweepData objects constructed in a session have the same ID.
C25_UniqueID ==
    /\ (call \in SweepMethods /\ outcome = "returned") =>
          built[Len(built)].ID =
              measure.label \o "_" \o "HARM" \o HarmOf(call) \o "_" \o "SENS"
                  \o ToString(lastcall[1].merged.sens) \o "_" \o strftime(clock)
    /\ \A d, e \in 1..Len(built) : d # e => built[d].ID # built[e].ID

\* what the fields freqs, Vs, X and Y of the d-th SweepData hold, in heap h
GridsAndBuffers(h, d) ==
    [freqs |-> h[built[d].freqs], Vs |-> h[built[d].Vs], X |-> h[built[d].X], Y |-> h[built[d].Y]]
\* the SweepData objects of which a write has changed a field
Changed == {d \in 1..Len(built) : GridsAndBuffers(heap', d) # GridsAndBuffers(heap, d)}

\* C26: a write to an array, by the caller to one of its own grids or
\* through a field of a SweepData, changes no field of any other SweepData:
\* a write to an array of the caller changes no SweepData at all, and no
\* write changes two of them.
C26_NothingShared ==
    [][(call' = "write" /\ heap' # heap) =>
          /\ Cardinality(Changed) <= 1
          /\ (\E a \in 1..Len(CallerArrays) : heap'[a] # heap[a]) => Changed = {}]_vars

\* the role a sweep method fills
RoleOf(name) ==
    CASE name = "sweep_sample3w" -> "Vs_3w"
      [] name = "sweep_sample1w" -> "Vs_1w"
      [] name = "sweep_shunt1w" -> "Vsh_1w"
\* the SweepData constructed last
Newest == built[Len(built)]

\* C28: a sweep method that returns has run one sweep, with harmonic 3 for
\* sweep_sample3w and 1 for sweep_sample1w and sweep_shunt1w, has stored
\* its SweepData in its own role (Vs_3w, Vs_1w, Vsh_1w) and has left the
\* other two roles as they were; and on a LockIn whose device answers, a
\* sweep method called with keyword arguments that LockIn.sweep takes
\* returns, so that the three methods fill the three roles.
C28_EachFillsItsRole ==
    [][call' \in SweepMethods =>
          /\ outcome' = "returned" =>
                /\ Len(built') = Len(built) + 1
                /\ Mentions(Newest'.ID, "_HARM" \o HarmOf(call') \o "_")
                /\ lockindata'[RoleOf(call')] = ASweepData(Len(built'))
                /\ \A r \in 1..3 :
                      Roles[r] # RoleOf(call') => lockindata'[Roles[r]] = lockindata[Roles[r]]
          /\ DOMAIN lastcall'[1].kwargs \subseteq SweepKeywords =>
                /\ outcome' = "returned"
                /\ lockindata'[RoleOf(call')].type = "SweepData"]_vars

\* the presets as the class body writes them, by role
PresetOf(role) ==
    CASE role = "Vs_1w" -> [sens |-> 26, stb_time |-> 5, meas_time |-> 1, ampl_time |-> 5]
      [] role = "Vs_3w" -> [sens |-> 22, stb_time |-> 10, meas_time |-> 1, ampl_time |-> 5]
      [] role = "Vsh_1w" -> [sens |-> 22, stb_time |-> 5, meas_time |-> 1, ampl_time |-> 5]
\* the keyword arguments, the merged parameters and the role of the last
\* call of a sweep method
Last == lastcall[1]

\* C29: the parameters a sweep method hands to LockIn.sweep are the preset
\* of its role (sample 1w: sens 26, stb 5; sample 3w: sens 22, stb 10;
\* shunt 1w: sens 22, stb 5; meas 1 and ampl 5 for all) with every field
\* the caller names replaced by the caller's value, the sweep that returns
\* was run with that sensitivity, and no call changes the presets of the
\* class, so that a later call starts from the same presets.
C29_PresetsMergedNotChanged ==
    [][call' \in SweepMethods =>
          /\ presets = ClassPresets
          /\ presets' = presets
          /\ Last'.role = RoleOf(call')
          /\ DOMAIN Last'.merged = DOMAIN PresetOf(Last'.role) \cup DOMAIN Last'.kwargs
          /\ \A f \in DOMAIN Last'.merged :
                Last'.merged[f] = IF f \in DOMAIN Last'.kwargs
                                  THEN Last'.kwargs[f]
                                  ELSE PresetOf(Last'.role)[f]
          /\ outcome' = "returned" =>
                /\ Last'.reached
                /\ Mentions(Newest'.ID, "_SENS" \o ToString(Last'.merged.sens) \o "_")]_vars
\* a sweep method called without keyword arguments has run its sweep with
\* the sensitivity of its preset, after a call that had named another
C29_Witness ==
    /\ call \in SweepMethods
    /\ outcome = "returned"
    /\ Len(built) = 2
    /\ Mentions(built[1].ID, "_SENS20_")
    /\ Last.kwargs = EmptyDict
    /\ Last.reached
    /\ Mentions(Newest.ID, "_SENS" \o ToString(PresetOf(Last.role).sens) \o "_")

\* the name the object was given for its directory, or the name it makes up
BaseName ==
    IF lockindata.create_dir = None THEN <<"recorded_", Today>> ELSE lockindata.create_dir.text
\* base if no directory has that name, else base(k) for the smallest k >= 1
\* such that no directory is named base(k)
FirstFree(base, dirs) ==
    IF base \notin dirs THEN base
    ELSE LET k == CHOOSE n \in 1..(Cardinality(dirs) + 1) :
                      /\ Append(base, Suffix(n)) \notin dirs
                      /\ \A m \in 1..(n - 1) : Append(base, Suffix(m)) \in dirs
         IN  Append(base, Suffix(k))

\* C31: the first call of save_tc3omega on a LockInData object creates one
\* directory, named as the object was told (base) if no directory has that
\* name and else base(k) for the smallest k >= 1 such that base(k) is free,
\* also for a base that holds a number in parentheses itself, and makes DIR
\* its path; every later call creates no directory and leaves DIR as it is
\* (stated for objects of which no attribute but a role was given a
\* SweepData).
C31_OneFreshDirectory ==
    [][(SaveStep /\ \A name \in NotRoles : lockindata[name].type # "SweepData") =>
          IF truthy(lockindata.directory_created)
          THEN /\ fs' = fs
               /\ lockindata'.DIR = lockindata.DIR
          ELSE /\ FirstFree(BaseName, fs) \notin fs
               /\ fs' = fs \cup {FirstFree(BaseName, fs)}
               /\ truthy(lockindata'.directory_created)
               /\ lockindata'.DIR = Str(Cwd \o <<"/">> \o FirstFree(BaseName, fs) \o <<"/">>)]_vars

Next ==
    \/ CallSetAmpl
    \/ CallSetSens
    \/ CallSetHarm
    \/ CallSweep
    \/ BackToCaller
    \/ SweepSetHarm
    \/ SweepSetSens
    \/ SweepSetAmpl
    \/ SweepSetFreq
    \/ SweepCapture
    \/ SweepSpts
    \/ SweepTrca1
    \/ SweepTrca2
    \/ SweepStore
    \/ SweepNext
    \/ SweepReturn

Spec == Init /\ [][Next]_vars

NextData ==
    \/ Construct
    \/ CallAddSweeps
    \/ CallSaveTc3omega
    \/ OtherMkdir
    \/ BackToCaller

SpecData == Init /\ [][NextData]_vars

NextSession ==
    \/ ConstructMeasure3w
    \/ SweepSample1w
    \/ SweepSample3w
    \/ SweepShunt1w
    \/ CallLockSweep
    \/ Wait
    \/ Write

SpecSession == Init /\ [][NextSession]_vars

====
